---- MODULE Spec2Model ----
(***************************************************************************)
(* Storage abstraction of the PDF-to-XML converter: the in-memory backend  *)
(* (MemStorage), the persistent backend (MongoDBStorage over a remote      *)
(* document store), the connection module and the storage manager that     *)
(* selects the active backend.                                             *)
(*                                                                         *)
(* Strings are sequences of character codes (ASCII), so that lower-casing, *)
(* substring search, regular-expression search and binary comparison are   *)
(* computed, not assumed.  Dates are integer timestamps.  An absent        *)
(* (undefined) numeric or date argument is the value Absent.               *)
(***************************************************************************)
EXTENDS Integers, Sequences, FiniteSets, TLC

(***************************************************************************)
(* Bounds of the model.                                                    *)
(***************************************************************************)
MaxConv == 2        \* conversions a backend holds at most
MaxTime == 1        \* last value of the clock (Date.now())

Absent == 0 - 1     \* undefined for numbers and dates

DOT == 46           \* '.', which a regular expression matches with any
                    \* character

\* the strings the model uses, as character codes
NameAb == <<97, 98>>        \* "ab"
NameBDot == <<66, 46>>      \* "B."
SearchA == <<65>>           \* "A"
SearchDot == <<46>>         \* "."

\* an ObjectId: MemStorage builds it from its counter, the store driver
\* generates it; the two never coincide
MemObjectId(n) == [n |-> n, gen |-> "mem"]
DbObjectId(n) == [n |-> n, gen |-> "db"]

NoId == [n |-> 0, gen |-> ""]                   \* no id
UserIds == {MemObjectId(1), MemObjectId(2)}    \* userId strings
FileNames == {NameAb, NameBDot}
Sizes == {0, 1}                                \* originalSize
XmlContents == {"xml"}                         \* xmlContent

\* the conversions the model creates: any name and size for the first user,
\* one conversion for the second
InsertConversions ==
  [userId : {MemObjectId(1)}, filename : FileNames, originalSize : Sizes,
   xmlContent : XmlContents]
  \cup {[userId |-> MemObjectId(2), filename |-> NameAb, originalSize |-> 1,
          xmlContent |-> "xml"]}

(***************************************************************************)
(* String primitives of the JavaScript runtime and of the document store.  *)
(***************************************************************************)
Min(a, b) == IF a < b THEN a ELSE b

toLowerChar(c) == IF c >= 65 /\ c <= 90 THEN c + 32 ELSE c

\* variant of toLowerCase that leaves the case as it is
toLowerCaseKept(s) == s

toLowerCase(s) == [i \in 1..Len(s) |-> toLowerChar(s[i])]

\* String.prototype.includes: t occurs in s as a contiguous substring
includes(s, t) ==
  \E i \in 0..(Len(s) - Len(t)) : \A j \in 1..Len(t) : s[i + j] = t[j]

\* s < t for JavaScript strings and for the store's binary string order:
\* lexicographic by code unit, a proper prefix is smaller
StrLess(s, t) ==
  \E k \in 1..Len(t) :
    /\ k - 1 <= Len(s)
    /\ \A j \in 1..(k - 1) : s[j] = t[j]
    /\ \/ k = Len(s) + 1
       \/ k <= Len(s) /\ s[k] < t[k]

\* { $regex: pattern, $options: 'i' } for patterns made of letters and '.':
\* unanchored; a letter matches itself in either case, '.' matches any
\* character
RegexMatchI(pattern, s) ==
  \E i \in 0..(Len(s) - Len(pattern)) :
    \A j \in 1..Len(pattern) :
      \/ pattern[j] = DOT
      \/ toLowerChar(pattern[j]) = toLowerChar(s[i + j])

(***************************************************************************)
(* Query arguments.                                                        *)
(***************************************************************************)
NoFilters ==                                   \* filters undefined
  [given |-> FALSE, search |-> <<>>, dateFrom |-> Absent, dateTo |-> Absent,
   sizeMin |-> Absent, sizeMax |-> Absent]
NoSort == [field |-> "", order |-> ""]         \* sortOptions undefined
NoPage == [page |-> 0, limit |-> 0]            \* pagination undefined

(***************************************************************************)
(* MemStorage.getConversions and getConversionsCount.                      *)
(***************************************************************************)
\* valA > valB in the comparator: strings for filename, numbers otherwise
MemGreater(a, b, field) ==
  IF field = "filename"
    THEN StrLess(toLowerCase(b.filename), toLowerCase(a.filename))
    ELSE IF field = "originalSize"
      THEN a.originalSize > b.originalSize
      ELSE a.convertedAt > b.convertedAt
\* variant of MemCompare that compares in ascending order whatever the order
MemCompareAscending(a, b, field, order) ==
  IF MemGreater(a, b, field) THEN 1
  ELSE IF MemGreater(b, a, field) THEN 0 - 1 ELSE 0

\* the comparator passed to Array.prototype.sort
MemCompare(a, b, field, order) ==
  IF order = "asc"
    THEN IF MemGreater(a, b, field) THEN 1
         ELSE IF MemGreater(b, a, field) THEN 0 - 1 ELSE 0
    ELSE IF MemGreater(b, a, field) THEN 1
         ELSE IF MemGreater(a, b, field) THEN 0 - 1 ELSE 0

\* Array.prototype.sort is stable: x goes behind every element that does
\* not compare greater than it
RECURSIVE SortInsert(_, _, _, _)
SortInsert(sorted, x, field, order) ==
  IF sorted = <<>> THEN <<x>>
  ELSE LET last == sorted[Len(sorted)]
       IN  IF MemCompare(last, x, field, order) <= 0
             THEN Append(sorted, x)
             ELSE Append(SortInsert(SubSeq(sorted, 1, Len(sorted) - 1),
                                    x, field, order), last)

RECURSIVE MemSort(_, _, _)
MemSort(s, field, order) ==
  IF s = <<>> THEN <<>>
  ELSE SortInsert(MemSort(SubSeq(s, 1, Len(s) - 1), field, order),
                  s[Len(s)], field, order)

\* Array.prototype.slice(start, end) for 0 <= start <= end
Slice(s, start, end) == SubSeq(s, start + 1, Min(end, Len(s)))

MemGetConversions(convs, uid, filters, sortOptions, pagination) ==
  LET byUser == SelectSeq(convs, LAMBDA c : c.userId = uid)
      bySearch ==
        IF filters.given /\ filters.search # <<>>
          THEN SelectSeq(byUser, LAMBDA c :
                 includes(toLowerCase(c.filename), toLowerCase(filters.search)))
          ELSE byUser
      byFrom ==
        IF filters.given /\ filters.dateFrom # Absent
          THEN SelectSeq(bySearch, LAMBDA c : c.convertedAt >= filters.dateFrom)
          ELSE bySearch
      byTo ==
        IF filters.given /\ filters.dateTo # Absent
          THEN SelectSeq(byFrom, LAMBDA c : c.convertedAt <= filters.dateTo)
          ELSE byFrom
      byMin ==
        IF filters.given /\ filters.sizeMin # Absent
          THEN SelectSeq(byTo, LAMBDA c : c.originalSize >= filters.sizeMin)
          ELSE byTo
      filtered ==
        IF filters.given /\ filters.sizeMax # Absent
          THEN SelectSeq(byMin, LAMBDA c : c.originalSize <= filters.sizeMax)
          ELSE byMin
      field == IF sortOptions.field # "" THEN sortOptions.field
               ELSE "convertedAt"
      order == IF sortOptions.order # "" THEN sortOptions.order ELSE "desc"
      sorted == MemSort(filtered, field, order)
  IN  IF pagination # NoPage
        THEN LET startIndex == (pagination.page - 1) * pagination.limit
             IN  Slice(sorted, startIndex, startIndex + pagination.limit)
        ELSE sorted

MemGetConversionsCount(convs, uid, filters) ==
  LET byUser == SelectSeq(convs, LAMBDA c : c.userId = uid)
      bySearch ==
        IF filters.given /\ filters.search # <<>>
          THEN SelectSeq(byUser, LAMBDA c :
                 includes(toLowerCase(c.filename), toLowerCase(filters.search)))
          ELSE byUser
      byFrom ==
        IF filters.given /\ filters.dateFrom # Absent
          THEN SelectSeq(bySearch, LAMBDA c : c.convertedAt >= filters.dateFrom)
          ELSE bySearch
      byTo ==
        IF filters.given /\ filters.dateTo # Absent
          THEN SelectSeq(byFrom, LAMBDA c : c.convertedAt <= filters.dateTo)
          ELSE byFrom
      byMin ==
        IF filters.given /\ filters.sizeMin # Absent
          THEN SelectSeq(byTo, LAMBDA c : c.originalSize >= filters.sizeMin)
          ELSE byTo
      filtered ==
        IF filters.given /\ filters.sizeMax # Absent
          THEN SelectSeq(byMin, LAMBDA c : c.originalSize <= filters.sizeMax)
          ELSE byMin
  IN  Len(filtered)

(***************************************************************************)
(* MongoDBStorage.getConversions and getConversionsCount: the query        *)
(* document, the sort directive, skip and limit, as the document store     *)
(* evaluates them.                                                         *)
(***************************************************************************)
\* variant of MongoListMatches whose query document has no userId
MongoListMatchesAnyUser(doc, uid, filters) ==
  /\ filters.given /\ filters.search # <<>>
       => RegexMatchI(filters.search, doc.filename)
  /\ filters.given /\ (filters.dateFrom # Absent \/ filters.dateTo # Absent)
       => /\ filters.dateFrom # Absent => doc.convertedAt >= filters.dateFrom
          /\ filters.dateTo # Absent => doc.convertedAt <= filters.dateTo
  /\ filters.given /\ (filters.sizeMin # Absent \/ filters.sizeMax # Absent)
       => /\ filters.sizeMin # Absent => doc.originalSize >= filters.sizeMin
          /\ filters.sizeMax # Absent => doc.originalSize <= filters.sizeMax

\* doc matches the query document getConversions builds
MongoListMatches(doc, uid, filters) ==
  /\ doc.userId = uid
  /\ filters.given /\ filters.search # <<>>
       => RegexMatchI(filters.search, doc.filename)
  /\ filters.given /\ (filters.dateFrom # Absent \/ filters.dateTo # Absent)
       => /\ filters.dateFrom # Absent => doc.convertedAt >= filters.dateFrom
          /\ filters.dateTo # Absent => doc.convertedAt <= filters.dateTo
  /\ filters.given /\ (filters.sizeMin # Absent \/ filters.sizeMax # Absent)
       => /\ filters.sizeMin # Absent => doc.originalSize >= filters.sizeMin
          /\ filters.sizeMax # Absent => doc.originalSize <= filters.sizeMax

\* variant of MongoCountMatches whose size range drops the upper bound
MongoCountMatchesNoMax(doc, uid, filters) ==
  /\ doc.userId = uid
  /\ filters.given /\ filters.search # <<>>
       => RegexMatchI(filters.search, doc.filename)
  /\ filters.given /\ (filters.dateFrom # Absent \/ filters.dateTo # Absent)
       => /\ filters.dateFrom # Absent => doc.convertedAt >= filters.dateFrom
          /\ filters.dateTo # Absent => doc.convertedAt <= filters.dateTo
  /\ filters.given /\ (filters.sizeMin # Absent \/ filters.sizeMax # Absent)
       => /\ filters.sizeMin # Absent => doc.originalSize >= filters.sizeMin

\* doc matches the query document getConversionsCount builds
MongoCountMatches(doc, uid, filters) ==
  /\ doc.userId = uid
  /\ filters.given /\ filters.search # <<>>
       => RegexMatchI(filters.search, doc.filename)
  /\ filters.given /\ (filters.dateFrom # Absent \/ filters.dateTo # Absent)
       => /\ filters.dateFrom # Absent => doc.convertedAt >= filters.dateFrom
          /\ filters.dateTo # Absent => doc.convertedAt <= filters.dateTo
  /\ filters.given /\ (filters.sizeMin # Absent \/ filters.sizeMax # Absent)
       => /\ filters.sizeMin # Absent => doc.originalSize >= filters.sizeMin
          /\ filters.sizeMax # Absent => doc.originalSize <= filters.sizeMax

\* a sorts strictly before b under { sortField: 1 }: the store compares
\* strings by their bytes (no collation) and numbers and dates by value
MongoLess(a, b, sortField) ==
  IF sortField = "filename" THEN StrLess(a.filename, b.filename)
  ELSE IF sortField = "originalSize" THEN a.originalSize < b.originalSize
  ELSE a.convertedAt < b.convertedAt

Orderings(n) ==
  { p \in [1..n -> 1..n] : \A i, j \in 1..n : i # j => p[i] # p[j] }

\* every order the store may return for find(query).sort(sortQuery): the
\* documents ordered by the sort key; the store leaves the order of
\* documents with equal keys unspecified, and it may differ from one
\* execution to the next
MongoSorted(found, sortField, sortOrder) ==
  { [i \in 1..Len(found) |-> found[p[i]]] : p \in
      { q \in Orderings(Len(found)) :
          \A i \in 1..(Len(found) - 1) :
            IF sortOrder = 1
              THEN ~MongoLess(found[q[i + 1]], found[q[i]], sortField)
              ELSE ~MongoLess(found[q[i]], found[q[i + 1]], sortField) } }

\* the results getConversions may return while the collection is available
MongoGetConversions(coll, uid, filters, sortOptions, pagination) ==
  LET sortField == IF sortOptions.field # "" THEN sortOptions.field
                   ELSE "convertedAt"
      sortOrder == IF sortOptions.order = "asc" THEN 1 ELSE 0 - 1
      found == SelectSeq(coll, LAMBDA d : MongoListMatches(d, uid, filters))
  IN  { IF pagination # NoPage
          THEN LET skip == (pagination.page - 1) * pagination.limit
               IN  SubSeq(s, skip + 1, Min(skip + pagination.limit, Len(s)))
          ELSE s
        : s \in MongoSorted(found, sortField, sortOrder) }

\* what getConversionsCount returns while the collection is available
MongoGetConversionsCount(coll, uid, filters) ==
  Len(SelectSeq(coll, LAMBDA d : MongoCountMatches(d, uid, filters)))

(***************************************************************************)
(* Record construction of the two backends.                                *)
(***************************************************************************)
\* MemStorage.createConversion: { _id, ...insertConversion, convertedAt }
MemNewConversion(id, data, t) ==
  [id |-> id, userId |-> data.userId, filename |-> data.filename,
   originalSize |-> data.originalSize, xmlContent |-> data.xmlContent,
   convertedAt |-> t]

\* MongoDBStorage.createConversion: the inserted document with the
\* generated _id
MongoNewConversion(id, data, t) ==
  [id |-> id, userId |-> data.userId, filename |-> data.filename,
   originalSize |-> data.originalSize, xmlContent |-> data.xmlContent,
   convertedAt |-> t]

\* MemStorage.createUser: { _id, ...insertUser, createdAt }
MemNewUser(id, data, t) ==
  [id |-> id, email |-> data.email, password |-> data.password,
   createdAt |-> t]

\* MongoDBStorage.createUser: the inserted document with the generated _id
MongoNewUser(id, data, t) ==
  [id |-> id, email |-> data.email, password |-> data.password,
   createdAt |-> t]

\* what a record says apart from its identifier, which each backend
\* generates in its own way
Content(c) ==
  [userId |-> c.userId, filename |-> c.filename,
   originalSize |-> c.originalSize, xmlContent |-> c.xmlContent,
   convertedAt |-> c.convertedAt]
Contents(l) == [i \in 1..Len(l) |-> Content(l[i])]

\* the query arguments the model draws from
Searches == {<<>>, SearchA, SearchDot}
DateBounds == {Absent} \cup 0..MaxTime
SizeBounds == {Absent} \cup Sizes
Filters ==
  {NoFilters} \cup
  [given : {TRUE}, search : Searches, dateFrom : DateBounds,
   dateTo : DateBounds, sizeMin : SizeBounds, sizeMax : SizeBounds]
SortFields == {"filename", "originalSize", "convertedAt"}
SortOptionsSet == {NoSort} \cup [field : SortFields, order : {"asc", "desc"}]
PageLimits == 1..(MaxConv + 1)
Pages == 1..(MaxConv + 1)
Paginations == {NoPage} \cup [page : Pages, limit : PageLimits]

(***************************************************************************)
(* State.                                                                  *)
(***************************************************************************)
VARIABLES
  users,                 \* MemStorage.users
  conversions,           \* MemStorage.conversions
  userId,                \* MemStorage.userId, the next user id
  conversionId,          \* MemStorage.conversionId, the next conversion id
  dbUsers,               \* the store's users collection, in natural order
  dbConversions,         \* the store's conversions collection
  dbNextId,              \* the next ObjectId the store driver generates
  now,                   \* the clock read by new Date()
  reachable,             \* the remote store answers
  readyState,            \* mongoose.connection.readyState: 1 connected,
                         \* 0 any other state
  isConnected,           \* module flag isConnected
  connectionAttempts,    \* module counter connectionAttempts
  listeners,             \* the connection event handlers are registered
  activeStorage,         \* storage manager: "mem" or "mongo"
  hasAttemptedMigration, \* storage manager flag
  mongoStorage,          \* storage manager: "null" or "created"
  connectionOK,          \* MongoDBStorage.connectionOK
  timerPc,               \* reconnect timer callback: "idle" or "connecting"
  probePc,               \* checkConnection: "idle", "connecting" or "query"
  lastTick,              \* what the last run of useMongoDBWithFallback saw
                         \* and returned
  migrationRuns,         \* how often migrateMemoryToMongo has run
  mongoSwitches,         \* switches to the persistent backend: 0, 1, or 2
                         \* for two or more
  proc                   \* the requests in progress

memVars == <<users, conversions, userId, conversionId>>
dbVars == <<dbUsers, dbConversions, dbNextId>>
connVars == <<readyState, isConnected, connectionAttempts, listeners>>
mgrVars == <<activeStorage, hasAttemptedMigration, mongoStorage, lastTick,
             migrationRuns, mongoSwitches>>
vars == <<memVars, dbVars, now, reachable, connVars, mgrVars, connectionOK,
          timerPc, probePc, proc>>

MAX_CONNECTION_ATTEMPTS == 5

Procs == {"p1", "p2"}

\* a request: pc is "idle", "connecting" (getCollection awaits the
\* connection attempt), "query" (the store round trip is under way),
\* "returned" (the storage call has settled, its caller not yet resumed),
\* "hashing" (bcrypt) or "done" (answered); h names the handler, op and arg the storage
\* call in progress, target the backend the call runs on, invokedOn the
\* backend that was active when the call was made, servedBy the backend
\* that produced res, answered whether the backend carried the call out
\* (FALSE when the collection was unavailable or the query threw), status
\* the HTTP status answered; user is req.user's id, reqId req.params.id,
\* items and total what GET /api/conversions answers
IdleProc ==
  [pc |-> "idle", h |-> "", stage |-> "", op |-> "", arg |-> <<>>,
   target |-> "", invokedOn |-> "", res |-> [kind |-> "absent"],
   servedBy |-> "", answered |-> FALSE, status |-> 0, email |-> "",
   user |-> NoId, reqId |-> NoId, items |-> 0, total |-> 0]

Init ==
  /\ users = <<>>
  /\ conversions = <<>>
  /\ userId = 1
  /\ conversionId = 1
  /\ dbUsers = <<>>
  /\ dbConversions = <<>>
  /\ dbNextId = 1
  /\ now = 0
  /\ reachable \in BOOLEAN
  /\ readyState = 0
  /\ isConnected = FALSE
  /\ connectionAttempts = 0
  /\ listeners = FALSE
  /\ activeStorage = "mem"
  /\ hasAttemptedMigration = FALSE
  /\ mongoStorage = "null"
  /\ connectionOK = FALSE
  /\ timerPc = "idle"
  /\ probePc = "idle"
  /\ lastTick = [ran |-> FALSE, reported |-> FALSE, returned |-> FALSE]
  /\ migrationRuns = 0
  /\ mongoSwitches = 0
  /\ proc = [p \in Procs |-> IdleProc]

(***************************************************************************)
(* Environment: the clock, the remote store, the connection events.        *)
(***************************************************************************)
\* the clock advances
Tick ==
  /\ now < MaxTime
  /\ now' = now + 1
  /\ UNCHANGED <<memVars, dbVars, reachable, connVars, mgrVars, connectionOK,
                 timerPc, probePc, proc>>

\* the remote store stops answering
ServerDown ==
  /\ reachable
  /\ reachable' = FALSE
  /\ UNCHANGED <<memVars, dbVars, now, connVars, mgrVars, connectionOK,
                 timerPc, probePc, proc>>

\* the remote store answers again
ServerUp ==
  /\ ~reachable
  /\ reachable' = TRUE
  /\ UNCHANGED <<memVars, dbVars, now, connVars, mgrVars, connectionOK,
                 timerPc, probePc, proc>>

\* mongoose.connection.on('disconnected'): the driver notices the loss
OnDisconnected ==
  /\ readyState = 1 /\ ~reachable
  /\ readyState' = 0
  /\ isConnected' = (IF listeners THEN FALSE ELSE isConnected)
  /\ UNCHANGED <<memVars, dbVars, now, reachable, connectionAttempts,
                 listeners, mgrVars, connectionOK, timerPc, probePc, proc>>

\* mongoose.connection.on('error'): the handle still reads connected
OnError ==
  /\ readyState = 1 /\ ~reachable /\ listeners
  /\ isConnected' = FALSE
  /\ UNCHANGED <<memVars, dbVars, now, reachable, readyState,
                 connectionAttempts, listeners, mgrVars, connectionOK,
                 timerPc, probePc, proc>>

\* mongoose.connection.on('reconnected'): the driver restores a connection
\* that had been established before
OnReconnected ==
  /\ readyState = 0 /\ reachable /\ listeners
  /\ readyState' = 1
  /\ isConnected' = TRUE
  /\ UNCHANGED <<memVars, dbVars, now, reachable, connectionAttempts,
                 listeners, mgrVars, connectionOK, timerPc, probePc, proc>>

(***************************************************************************)
(* connectToDatabase.                                                      *)
(***************************************************************************)
uri == TRUE     \* MONGODB_URI is configured
\* variant of ConnectOutcome without the give-up check
ConnectOutcomeUnlimited ==
  IF readyState = 1 THEN "conn"
  ELSE IF ~uri THEN "null"
  ELSE "pending"

\* the part of connectToDatabase before its await: "conn" when the
\* connection is reused, "null" when it gives up, "pending" when it has
\* started mongoose.connect
ConnectOutcome ==
  IF readyState = 1 THEN "conn"
  ELSE IF connectionAttempts >= MAX_CONNECTION_ATTEMPTS THEN "null"
  ELSE IF ~uri THEN "null"
  ELSE "pending"

\* the module state after that part
ConnectBegin ==
  /\ isConnected' = (IF readyState = 1 THEN TRUE ELSE isConnected)
  /\ connectionAttempts' =
       (IF ConnectOutcome = "pending" THEN connectionAttempts + 1
        ELSE connectionAttempts)
  /\ UNCHANGED <<readyState, listeners>>

\* mongoose.connect resolves when the store answers (or the connection is
\* open already) and rejects, or times out, otherwise
ConnectSucceeds == reachable \/ readyState = 1

\* the part of connectToDatabase after its await
ConnectEnd ==
  IF ConnectSucceeds
    THEN /\ isConnected' = TRUE
         /\ connectionAttempts' = 0
         /\ listeners' = TRUE
         /\ readyState' = 1
    ELSE UNCHANGED connVars

\* isMongoConnected()
isMongoConnected == readyState = 1

(***************************************************************************)
(* The reconnect timer of the connection module.                           *)
(***************************************************************************)
ReconnectTimer ==
  /\ timerPc = "idle"
  /\ IF ~isMongoConnected /\ connectionAttempts < MAX_CONNECTION_ATTEMPTS
       THEN /\ ConnectBegin
            /\ timerPc' = (IF ConnectOutcome = "pending" THEN "connecting"
                           ELSE "idle")
       ELSE UNCHANGED <<connVars, timerPc>>
  /\ UNCHANGED <<memVars, dbVars, now, reachable, mgrVars, connectionOK,
                 probePc, proc>>

ReconnectTimerDone ==
  /\ timerPc = "connecting"
  /\ ConnectEnd
  /\ timerPc' = "idle"
  /\ UNCHANGED <<memVars, dbVars, now, reachable, mgrVars, connectionOK,
                 probePc, proc>>

(***************************************************************************)
(* getCollection and the store round trip.                                 *)
(***************************************************************************)
\* a query sent on the collection is answered; otherwise it throws (lost
\* connection, socket or buffering timeout)
StoreAnswers == reachable /\ readyState = 1

(***************************************************************************)
(* MongoDBStorage.checkConnection, started by the constructor and by the   *)
(* backend's own timer.                                                    *)
(***************************************************************************)
\* checkConnection up to its first suspension
ProbeBegin ==
  /\ ConnectBegin
  /\ probePc' = (IF ConnectOutcome = "conn" THEN "query"
                 ELSE IF ConnectOutcome = "pending" THEN "connecting"
                 ELSE "idle")
  /\ connectionOK' = (IF ConnectOutcome = "null" THEN FALSE ELSE connectionOK)

ProbeTimer ==
  /\ mongoStorage = "created"
  /\ probePc = "idle"
  /\ ProbeBegin
  /\ UNCHANGED <<memVars, dbVars, now, reachable, mgrVars, timerPc, proc>>

\* the connection attempt started by getCollection('users') has ended
ProbeConnected ==
  /\ probePc = "connecting"
  /\ ConnectEnd
  /\ IF readyState' = 1
       THEN probePc' = "query" /\ UNCHANGED connectionOK
       ELSE probePc' = "idle" /\ connectionOK' = FALSE
  /\ UNCHANGED <<memVars, dbVars, now, reachable, mgrVars, timerPc, proc>>

\* countDocuments({}, { limit: 1 }) has returned or thrown
ProbeAnswered ==
  /\ probePc = "query"
  /\ probePc' = "idle"
  /\ connectionOK' = StoreAnswers
  /\ UNCHANGED <<memVars, dbVars, now, reachable, connVars, mgrVars, timerPc,
                 proc>>

(***************************************************************************)
(* Storage manager: setStorage, migrateMemoryToMongo and the selector      *)
(* useMongoDBWithFallback run by its timer.                                *)
(***************************************************************************)
\* variant of migrateMemoryToMongo that does not set the flag
migrateMemoryToMongoUnmarked ==
  /\ hasAttemptedMigration' = hasAttemptedMigration
  /\ migrationRuns' = migrationRuns + 1
  /\ UNCHANGED <<memVars, dbVars>>
\* variant of migrateMemoryToMongo that empties the in-memory backend
migrateMemoryToMongoMoving ==
  /\ hasAttemptedMigration' = TRUE
  /\ migrationRuns' = migrationRuns + 1
  /\ users' = <<>>
  /\ conversions' = <<>>
  /\ UNCHANGED <<userId, conversionId, dbVars>>

\* sets the flag; the body copies no record
migrateMemoryToMongo ==
  /\ hasAttemptedMigration' = TRUE
  /\ migrationRuns' = migrationRuns + 1
  /\ UNCHANGED <<memVars, dbVars>>

\* variant of setStorage that never leaves the persistent backend
setStorageSticky(storage) ==
  /\ activeStorage' = (IF activeStorage = "mongo" THEN "mongo" ELSE storage)
  /\ mongoSwitches' = (IF storage = "mongo" THEN Min(mongoSwitches + 1, 2)
                       ELSE mongoSwitches)
  /\ IF activeStorage = "mem" /\ storage = "mongo" /\ ~hasAttemptedMigration
       THEN migrateMemoryToMongo
       ELSE UNCHANGED <<hasAttemptedMigration, migrationRuns, memVars, dbVars>>

setStorage(storage) ==
  /\ activeStorage' = storage
  /\ mongoSwitches' = (IF storage = "mongo" THEN Min(mongoSwitches + 1, 2)
                       ELSE mongoSwitches)
  /\ IF activeStorage = "mem" /\ storage = "mongo" /\ ~hasAttemptedMigration
       THEN migrateMemoryToMongo
       ELSE UNCHANGED <<hasAttemptedMigration, migrationRuns, memVars, dbVars>>
\* variant of getMongoStorage that constructs a MongoDBStorage on every call
getMongoStorageAnew ==
  /\ mongoStorage' = "created"
  /\ ProbeBegin

\* getMongoStorage: the first call constructs MongoDBStorage, whose
\* constructor starts checkConnection; the constructor does not throw
getMongoStorage ==
  /\ mongoStorage' = "created"
  /\ IF mongoStorage = "null"
       THEN ProbeBegin
       ELSE UNCHANGED <<connVars, probePc, connectionOK>>

\* variant of useMongoDBWithFallback that reads the value isConnected had
\* when the module was loaded
useMongoDBWithFallbackStale ==
  /\ getMongoStorage
  /\ IF FALSE /\ isConnected'
       THEN /\ IF activeStorage # "mongo"
                 THEN setStorage("mongo")
                 ELSE UNCHANGED <<activeStorage, hasAttemptedMigration,
                                  migrationRuns, mongoSwitches, memVars,
                                  dbVars>>
            /\ lastTick' = [ran |-> TRUE, reported |-> isConnected',
                            returned |-> TRUE]
       ELSE /\ IF activeStorage # "mem"
                 THEN setStorage("mem")
                 ELSE UNCHANGED <<activeStorage, hasAttemptedMigration,
                                  migrationRuns, mongoSwitches, memVars,
                                  dbVars>>
            /\ lastTick' = [ran |-> TRUE, reported |-> isConnected',
                            returned |-> FALSE]
  /\ UNCHANGED <<now, reachable, timerPc, proc>>
\* variant of useMongoDBWithFallback that calls setStorage on every run
useMongoDBWithFallbackAlways ==
  /\ getMongoStorage
  /\ IF isConnected'
       THEN /\ setStorage("mongo")
            /\ lastTick' = [ran |-> TRUE, reported |-> isConnected',
                            returned |-> TRUE]
       ELSE /\ setStorage("mem")
            /\ lastTick' = [ran |-> TRUE, reported |-> isConnected',
                            returned |-> FALSE]
  /\ UNCHANGED <<now, reachable, timerPc, proc>>

useMongoDBWithFallback ==
  /\ getMongoStorage
  /\ IF isConnected'
       THEN /\ IF activeStorage # "mongo"
                 THEN setStorage("mongo")
                 ELSE UNCHANGED <<activeStorage, hasAttemptedMigration,
                                  migrationRuns, mongoSwitches, memVars,
                                  dbVars>>
            /\ lastTick' = [ran |-> TRUE, reported |-> isConnected',
                            returned |-> TRUE]
       ELSE /\ IF activeStorage # "mem"
                 THEN setStorage("mem")
                 ELSE UNCHANGED <<activeStorage, hasAttemptedMigration,
                                  migrationRuns, mongoSwitches, memVars,
                                  dbVars>>
            /\ lastTick' = [ran |-> TRUE, reported |-> isConnected',
                            returned |-> FALSE]
  /\ UNCHANGED <<now, reachable, timerPc, proc>>

(***************************************************************************)
(* The operations of the two backends on their data.  A call yields the    *)
(* value returned (res) and the data afterwards.                           *)
(***************************************************************************)
MaxCreated == 2     \* records the callers create in all

\* Array.prototype.find, findOne: index of the first element passing Test,
\* 0 when there is none
FindFirst(s, Test(_)) ==
  LET hits == { i \in 1..Len(s) : Test(s[i]) }
  IN  IF hits = {} THEN 0 ELSE CHOOSE i \in hits : \A j \in hits : i <= j

ResAbsent == [kind |-> "absent"]               \* undefined
ResError == [kind |-> "error"]                 \* the call threw
ResUser(u) == [kind |-> "user", user |-> u]
ResConv(c) == [kind |-> "conv", conv |-> c]
ResList(l) == [kind |-> "list", list |-> l]
ResCount(n) == [kind |-> "count", n |-> n]
ResBool(b) == [kind |-> "bool", b |-> b]

MemState(res) ==
  [res |-> res, users |-> users, conversions |-> conversions,
   userId |-> userId, conversionId |-> conversionId]

MemGetUserById(id) ==
  LET i == FindFirst(users, LAMBDA u : u.id = id)
  IN  MemState(IF i = 0 THEN ResAbsent ELSE ResUser(users[i]))

MemGetUserByEmail(email) ==
  LET i == FindFirst(users, LAMBDA u : u.email = email)
  IN  MemState(IF i = 0 THEN ResAbsent ELSE ResUser(users[i]))

MemCreateUser(insertUser) ==
  LET user == MemNewUser(MemObjectId(userId), insertUser, now)
  IN  [MemState(ResUser(user)) EXCEPT !.users = Append(users, user),
                                      !.userId = userId + 1]

MemGetConversion(id) ==
  LET i == FindFirst(conversions, LAMBDA c : c.id = id)
  IN  MemState(IF i = 0 THEN ResAbsent ELSE ResConv(conversions[i]))
\* variant of MemCreateConversion that does not push the record
MemCreateConversionUnstored(insertConversion) ==
  LET conversion ==
        MemNewConversion(MemObjectId(conversionId), insertConversion, now)
  IN  [MemState(ResConv(conversion))
         EXCEPT !.conversionId = conversionId + 1]
\* variant of MemCreateConversion that leaves the counter as it is
MemCreateConversionSameId(insertConversion) ==
  LET conversion ==
        MemNewConversion(MemObjectId(conversionId), insertConversion, now)
  IN  [MemState(ResConv(conversion))
         EXCEPT !.conversions = Append(conversions, conversion)]

MemCreateConversion(insertConversion) ==
  LET conversion ==
        MemNewConversion(MemObjectId(conversionId), insertConversion, now)
  IN  [MemState(ResConv(conversion))
         EXCEPT !.conversions = Append(conversions, conversion),
                !.conversionId = conversionId + 1]
\* variant of MemDeleteConversion whose result compares with <=
MemDeleteConversionLax(id) ==
  LET kept == SelectSeq(conversions, LAMBDA c : c.id # id)
  IN  [MemState(ResBool(Len(kept) <= Len(conversions)))
         EXCEPT !.conversions = kept]
\* variant of MemDeleteConversion that removes every conversion of the
\* user who owns the one named
MemDeleteConversionOfUser(id) ==
  LET i == FindFirst(conversions, LAMBDA c : c.id = id)
      kept == IF i = 0 THEN conversions
              ELSE SelectSeq(conversions,
                             LAMBDA c : c.userId # conversions[i].userId)
  IN  [MemState(ResBool(Len(kept) < Len(conversions)))
         EXCEPT !.conversions = kept]

MemDeleteConversion(id) ==
  LET kept == SelectSeq(conversions, LAMBDA c : c.id # id)
  IN  [MemState(ResBool(Len(kept) < Len(conversions)))
         EXCEPT !.conversions = kept]
\* variant of MemCall in which getConversions sorts the stored array itself
MemCallSortingInPlace(op, arg) ==
  CASE op = "getUserById" -> MemGetUserById(arg)
    [] op = "getUserByEmail" -> MemGetUserByEmail(arg)
    [] op = "createUser" -> MemCreateUser(arg)
    [] op = "getConversions" ->
         [MemState(ResList(MemGetConversions(conversions, arg.uid,
                                             arg.filters, arg.sortOptions,
                                             arg.pagination)))
            EXCEPT !.conversions =
                     MemSort(conversions,
                             IF arg.sortOptions.field # ""
                               THEN arg.sortOptions.field
                               ELSE "convertedAt",
                             IF arg.sortOptions.order = "asc" THEN "asc"
                             ELSE "desc")]
    [] op = "getConversionsCount" ->
         MemState(ResCount(MemGetConversionsCount(conversions, arg.uid,
                                                  arg.filters)))
    [] op = "getConversion" -> MemGetConversion(arg)
    [] op = "createConversion" -> MemCreateConversion(arg)
    [] op = "deleteConversion" -> MemDeleteConversion(arg)

\* MemStorage method op called with arg
MemCall(op, arg) ==
  CASE op = "getUserById" -> MemGetUserById(arg)
    [] op = "getUserByEmail" -> MemGetUserByEmail(arg)
    [] op = "createUser" -> MemCreateUser(arg)
    [] op = "getConversions" ->
         MemState(ResList(MemGetConversions(conversions, arg.uid, arg.filters,
                                            arg.sortOptions, arg.pagination)))
    [] op = "getConversionsCount" ->
         MemState(ResCount(MemGetConversionsCount(conversions, arg.uid,
                                                  arg.filters)))
    [] op = "getConversion" -> MemGetConversion(arg)
    [] op = "createConversion" -> MemCreateConversion(arg)
    [] op = "deleteConversion" -> MemDeleteConversion(arg)

DbState(res) ==
  [res |-> res, dbUsers |-> dbUsers, dbConversions |-> dbConversions,
   dbNextId |-> dbNextId]

\* usersCollection.findOne({ _id: new ObjectId(id) })
MongoGetUserById(id) ==
  LET i == FindFirst(dbUsers, LAMBDA u : u.id = id)
  IN  { DbState(IF i = 0 THEN ResAbsent ELSE ResUser(dbUsers[i])) }

\* usersCollection.findOne({ email })
MongoGetUserByEmail(email) ==
  LET i == FindFirst(dbUsers, LAMBDA u : u.email = email)
  IN  { DbState(IF i = 0 THEN ResAbsent ELSE ResUser(dbUsers[i])) }

\* usersCollection.insertOne(userWithDate)
MongoCreateUser(insertUser) ==
  LET user == MongoNewUser(DbObjectId(dbNextId), insertUser, now)
  IN  { [DbState(ResUser(user)) EXCEPT !.dbUsers = Append(dbUsers, user),
                                       !.dbNextId = dbNextId + 1] }

\* conversionsCollection.findOne({ _id: new ObjectId(id) })
MongoGetConversion(id) ==
  LET i == FindFirst(dbConversions, LAMBDA c : c.id = id)
  IN  { DbState(IF i = 0 THEN ResAbsent ELSE ResConv(dbConversions[i])) }

\* conversionsCollection.insertOne(conversionWithDate)
MongoCreateConversion(insertConversion) ==
  LET conversion ==
        MongoNewConversion(DbObjectId(dbNextId), insertConversion, now)
  IN  { [DbState(ResConv(conversion))
          EXCEPT !.dbConversions = Append(dbConversions, conversion),
                 !.dbNextId = dbNextId + 1] }
\* variant of MongoDBStorage.deleteConversion that returns
\* result.acknowledged
MongoDeleteConversionAcknowledged(id) ==
  LET i == FindFirst(dbConversions, LAMBDA c : c.id = id)
      kept == [j \in 1..(Len(dbConversions) - 1) |->
                 IF j < i THEN dbConversions[j] ELSE dbConversions[j + 1]]
  IN  { IF i = 0 THEN DbState(ResBool(TRUE))
        ELSE [DbState(ResBool(TRUE)) EXCEPT !.dbConversions = kept] }

\* conversionsCollection.deleteOne({ _id: new ObjectId(id) })
MongoDeleteConversion(id) ==
  LET i == FindFirst(dbConversions, LAMBDA c : c.id = id)
      kept == [j \in 1..(Len(dbConversions) - 1) |->
                 IF j < i THEN dbConversions[j] ELSE dbConversions[j + 1]]
  IN  { IF i = 0 THEN DbState(ResBool(FALSE))
        ELSE [DbState(ResBool(TRUE)) EXCEPT !.dbConversions = kept] }

\* the outcomes of MongoDBStorage method op called with arg when the store
\* answers its query
MongoCall(op, arg) ==
  CASE op = "getUserById" -> MongoGetUserById(arg)
    [] op = "getUserByEmail" -> MongoGetUserByEmail(arg)
    [] op = "createUser" -> MongoCreateUser(arg)
    [] op = "getConversions" ->
         { DbState(ResList(l)) :
             l \in MongoGetConversions(dbConversions, arg.uid, arg.filters,
                                       arg.sortOptions, arg.pagination) }
    [] op = "getConversionsCount" ->
         { DbState(ResCount(MongoGetConversionsCount(dbConversions, arg.uid,
                                                     arg.filters))) }
    [] op = "getConversion" -> MongoGetConversion(arg)
    [] op = "createConversion" -> MongoCreateConversion(arg)
    [] op = "deleteConversion" -> MongoDeleteConversion(arg)
\* variant of MongoFailure in which deleteConversion rethrows
MongoFailureDeleteThrows(op) ==
  CASE op \in {"getUserById", "getUserByEmail", "getConversion"} -> ResAbsent
    [] op = "getConversions" -> ResList(<<>>)
    [] op = "getConversionsCount" -> ResCount(0)
    [] op \in {"createUser", "createConversion", "deleteConversion"} ->
         ResError

\* variant of MongoFailure in which createUser resolves without a record
MongoFailureCreateAbsent(op) ==
  CASE op \in {"getUserById", "getUserByEmail", "getConversion",
               "createUser"} -> ResAbsent
    [] op = "getConversions" -> ResList(<<>>)
    [] op = "getConversionsCount" -> ResCount(0)
    [] op = "deleteConversion" -> ResBool(FALSE)
    [] op = "createConversion" -> ResError

\* what MongoDBStorage method op returns when the collection is not
\* available or the query throws: reads degrade, creations rethrow
MongoFailure(op) ==
  CASE op \in {"getUserById", "getUserByEmail", "getConversion"} -> ResAbsent
    [] op = "getConversions" -> ResList(<<>>)
    [] op = "getConversionsCount" -> ResCount(0)
    [] op = "deleteConversion" -> ResBool(FALSE)
    [] op \in {"createUser", "createConversion"} -> ResError

(***************************************************************************)
(* The public storage functions: the proxies of the storage manager.       *)
(***************************************************************************)
Emails == {"a@x", "b@x"}
InsertUsers == [email : Emails, password : {"hash"}]

\* arguments the callers of this model pass to the proxies
CallConversion ==
  [userId |-> MemObjectId(1), filename |-> NameAb, originalSize |-> 1,
   xmlContent |-> "xml"]
CallIds == {MemObjectId(1), DbObjectId(1)}
CallArgs(op) ==
  CASE op = "getUserById" -> CallIds
    [] op = "getUserByEmail" -> {"a@x"}
    [] op = "createUser" -> {[email |-> "a@x", password |-> "hash"]}
    [] op = "getConversions" ->
         {[uid |-> MemObjectId(1), filters |-> NoFilters,
           sortOptions |-> NoSort, pagination |-> NoPage]}
    [] op = "getConversionsCount" ->
         {[uid |-> MemObjectId(1), filters |-> NoFilters]}
    [] op = "getConversion" -> CallIds
    [] op = "createConversion" -> {CallConversion}
    [] op = "deleteConversion" -> CallIds

Ops ==
  {"getUserById", "getUserByEmail", "createUser", "getConversions",
   "getConversionsCount", "getConversion", "createConversion",
   "deleteConversion"}

\* creations under way on the persistent backend
Pending ==
  Cardinality({ p \in Procs : /\ proc[p].pc \in {"connecting", "query"}
                              /\ proc[p].op \in {"createUser",
                                                 "createConversion"} })

\* the bound on what the callers create
MayCreate(op) ==
  op \in {"createUser", "createConversion"} =>
    (userId - 1) + (conversionId - 1) + (dbNextId - 1) + Pending < MaxCreated

\* variant of BoundStorage that reads activeStorage when the method resumes
BoundStorageLate(p) == activeStorage

\* the backend whose method body is running for p: the proxy has read
\* activeStorage once, when it was called
BoundStorage(p) == proc[p].target

\* a proxy is called: the method of the active backend runs up to its first
\* suspension.  MemStorage methods never suspend; MongoDBStorage methods
\* await getCollection, which calls connectToDatabase
InvokeMem(p, h, stage, op, arg) ==
  LET m == MemCall(op, arg)
  IN  /\ users' = m.users
      /\ conversions' = m.conversions
      /\ userId' = m.userId
      /\ conversionId' = m.conversionId
      /\ proc' = [proc EXCEPT ![p] =
           [@ EXCEPT !.pc = "returned", !.h = h, !.stage = stage, !.op = op,
                     !.arg = arg, !.target = "mem", !.invokedOn = "mem",
                     !.res = m.res, !.servedBy = "mem", !.answered = TRUE]]
      /\ UNCHANGED <<dbVars, connVars>>

InvokeMongo(p, h, stage, op, arg) ==
  /\ ConnectBegin
  /\ proc' = [proc EXCEPT ![p] =
       [@ EXCEPT !.pc = (IF ConnectOutcome = "conn" THEN "query"
                         ELSE IF ConnectOutcome = "pending" THEN "connecting"
                         ELSE "returned"),
                 !.h = h, !.stage = stage, !.op = op, !.arg = arg,
                 !.target = "mongo", !.invokedOn = "mongo",
                 !.res = (IF ConnectOutcome = "null" THEN MongoFailure(op)
                          ELSE [kind |-> "absent"]),
                 !.servedBy = (IF ConnectOutcome = "null" THEN "mongo"
                               ELSE "")]]
  /\ UNCHANGED <<memVars, dbVars>>

\* the connection attempt started by getCollection for p has ended
MongoCallConnected(p) ==
  /\ proc[p].pc = "connecting"
  /\ ConnectEnd
  /\ proc' = [proc EXCEPT ![p] =
       IF readyState' = 1
         THEN [@ EXCEPT !.pc = "query"]
         ELSE [@ EXCEPT !.pc = "returned", !.res = MongoFailure(proc[p].op),
                        !.servedBy = "mongo"]]
  /\ UNCHANGED <<memVars, dbVars, now, reachable, mgrVars, connectionOK,
                 timerPc, probePc>>

\* the query p's storage call has sent is executed by the store, or throws
MongoCallAnswered(p) ==
  /\ proc[p].pc = "query"
  /\ IF BoundStorage(p) = "mongo"
       THEN /\ IF StoreAnswers
                 THEN \E r \in MongoCall(proc[p].op, proc[p].arg) :
                        /\ dbUsers' = r.dbUsers
                        /\ dbConversions' = r.dbConversions
                        /\ dbNextId' = r.dbNextId
                        /\ proc' = [proc EXCEPT ![p] =
                             [@ EXCEPT !.pc = "returned", !.res = r.res,
                                       !.servedBy = "mongo",
                                       !.answered = TRUE]]
                 ELSE /\ UNCHANGED dbVars
                      /\ proc' = [proc EXCEPT ![p] =
                           [@ EXCEPT !.pc = "returned",
                                     !.res = MongoFailure(proc[p].op),
                                     !.servedBy = "mongo"]]
            /\ UNCHANGED memVars
       ELSE LET m == MemCall(proc[p].op, proc[p].arg)
            IN  /\ users' = m.users
                /\ conversions' = m.conversions
                /\ userId' = m.userId
                /\ conversionId' = m.conversionId
                /\ proc' = [proc EXCEPT ![p] =
                     [@ EXCEPT !.pc = "returned", !.res = m.res,
                               !.servedBy = "mem", !.answered = TRUE]]
                /\ UNCHANGED dbVars
  /\ UNCHANGED <<now, reachable, connVars, mgrVars, connectionOK, timerPc,
                 probePc>>

\* a caller calls one of the eight public storage functions
Call(p, op, arg) ==
  /\ proc[p].pc = "idle"
  /\ MayCreate(op)
  /\ IF activeStorage = "mem"
       THEN InvokeMem(p, "call", "", op, arg)
       ELSE InvokeMongo(p, "call", "", op, arg)
  /\ UNCHANGED <<now, reachable, mgrVars, connectionOK, timerPc, probePc>>

\* the caller of a public storage function receives its result
CallReturns(p) ==
  /\ proc[p].pc = "returned" /\ proc[p].h = "call"
  /\ proc' = [proc EXCEPT ![p] = IdleProc]
  /\ UNCHANGED <<memVars, dbVars, now, reachable, connVars, mgrVars,
                 connectionOK, timerPc, probePc>>

(***************************************************************************)
(* POST /api/register (auth.ts register).  The request body is taken to    *)
(* pass registerSchema.                                                    *)
(***************************************************************************)
\* the handler up to its first suspension: getUserByEmail is called
RegisterBegins(p, email) ==
  /\ proc[p].pc = "idle"
  /\ IF activeStorage = "mem"
       THEN LET existingUser == MemGetUserByEmail(email).res
            IN  /\ proc' = [proc EXCEPT ![p] =
                     [IdleProc EXCEPT
                        !.pc = (IF existingUser.kind = "user" THEN "done"
                                ELSE "hashing"),
                        !.h = "register", !.email = email,
                        !.invokedOn = "mem", !.servedBy = "mem",
                        !.status = (IF existingUser.kind = "user" THEN 400
                                    ELSE 0)]]
                /\ UNCHANGED <<memVars, dbVars, connVars>>
       ELSE InvokeMongo(p, "register", "lookup", "getUserByEmail", email)
  /\ UNCHANGED <<now, reachable, mgrVars, connectionOK, timerPc, probePc>>

\* getUserByEmail has settled on the persistent backend
RegisterLookedUp(p) ==
  /\ proc[p].pc = "returned" /\ proc[p].h = "register"
  /\ proc[p].stage = "lookup"
  /\ proc' = [proc EXCEPT ![p] =
       IF proc[p].res.kind = "user"
         THEN [@ EXCEPT !.pc = "done", !.status = 400]
         ELSE [@ EXCEPT !.pc = "hashing", !.email = proc[p].arg]]
  /\ UNCHANGED <<memVars, dbVars, now, reachable, connVars, mgrVars,
                 connectionOK, timerPc, probePc>>

\* hashPassword has settled: createUser is called
RegisterHashed(p) ==
  /\ proc[p].pc = "hashing"
  /\ MayCreate("createUser")
  /\ LET insertUser == [email |-> proc[p].email, password |-> "hash"]
     IN  IF activeStorage = "mem"
           THEN LET m == MemCreateUser(insertUser)
                IN  /\ users' = m.users
                    /\ userId' = m.userId
                    /\ proc' = [proc EXCEPT ![p] =
                         [@ EXCEPT !.pc = "done", !.status = 201,
                                   !.res = m.res, !.invokedOn = "mem",
                                   !.servedBy = "mem"]]
                    /\ UNCHANGED <<conversions, conversionId, dbVars,
                                   connVars>>
           ELSE InvokeMongo(p, "register", "create", "createUser", insertUser)
  /\ UNCHANGED <<now, reachable, mgrVars, connectionOK, timerPc, probePc>>

\* createUser has settled on the persistent backend
RegisterCreated(p) ==
  /\ proc[p].pc = "returned" /\ proc[p].h = "register"
  /\ proc[p].stage = "create"
  /\ proc' = [proc EXCEPT ![p] =
       [@ EXCEPT !.pc = "done",
                 !.status = (IF proc[p].res.kind = "user" THEN 201 ELSE 500)]]
  /\ UNCHANGED <<memVars, dbVars, now, reachable, connVars, mgrVars,
                 connectionOK, timerPc, probePc>>

\* the response has been sent
RequestEnds(p) ==
  /\ proc[p].pc = "done"
  /\ proc' = [proc EXCEPT ![p] = IdleProc]
  /\ UNCHANGED <<memVars, dbVars, now, reachable, connVars, mgrVars,
                 connectionOK, timerPc, probePc>>

(***************************************************************************)
(* The route handlers behind the authenticate middleware: POST             *)
(* /api/convert, GET /api/conversions, GET and DELETE /api/conversions/:id. *)
(* A handler runs until it awaits something that is not settled yet: a     *)
(* MemStorage method returns a settled promise, so a handler continues     *)
(* past it in the same turn; a MongoDBStorage method and the PDF parser do *)
(* not.                                                                    *)
(***************************************************************************)
RouteHandlers == {"convert", "list", "get", "delete"}
WriteOps == {"createUser", "createConversion", "deleteConversion"}

DefaultLimit == 50      \* limit = '50'
\* the arguments GET /api/conversions passes for an empty query string
ListFilters ==
  [given |-> TRUE, search |-> <<>>, dateFrom |-> Absent, dateTo |-> Absent,
   sizeMin |-> Absent, sizeMax |-> Absent]
ListSort == [field |-> "convertedAt", order |-> "desc"]
ListPage == [page |-> 1, limit |-> DefaultLimit]

\* the file POST /api/convert receives
Upload(uid) ==
  [userId |-> uid, filename |-> NameAb, originalSize |-> 1,
   xmlContent |-> "xml"]

\* what a handler does next: respond with a status, await the parser, or
\* call a storage function; r is the request as the handler leaves it
Respond(status, r) ==
  [kind |-> "respond", status |-> status, stage |-> r.stage, op |-> "",
   arg |-> <<>>, r |-> r]
Awaits(stage, r) ==
  [kind |-> "await", status |-> 0, stage |-> stage, op |-> "", arg |-> <<>>,
   r |-> r]
Calls(stage, op, arg, r) ==
  [kind |-> "call", status |-> 0, stage |-> stage, op |-> op, arg |-> arg,
   r |-> r]

\* the route handler proper, entered with req.user set
Entered(r) ==
  IF r.h = "convert" THEN Awaits("parsed", r)
  ELSE IF r.h = "list"
    THEN Calls("list", "getConversions",
               [uid |-> r.user, filters |-> ListFilters,
                sortOptions |-> ListSort, pagination |-> ListPage], r)
    ELSE Calls("find", "getConversion", r.reqId, r)

\* variant of Owns that lets every authenticated user pass
OwnsAny(r) == TRUE

\* conversion.userId === req.user._id.toString(), r.res being the
\* conversion getConversion has returned
Owns(r) == r.res.conv.userId = r.user

\* what the handler of request r does when it is resumed; r.stage names
\* the await it is resumed from and r.res the value awaited
NextCall(r) ==
  CASE r.stage = "start" -> Calls("auth", "getUserById", r.arg, r)
    [] r.stage = "auth" ->
         IF r.res.kind # "user" THEN Respond(401, r)
         ELSE Entered([r EXCEPT !.user = r.res.user.id])
    [] r.stage = "parsed" ->
         Calls("store", "createConversion", Upload(r.user), r)
    [] r.stage = "store" ->
         Respond(IF r.res.kind = "conv" THEN 200 ELSE 500, r)
    [] r.stage = "list" ->
         Calls("count", "getConversionsCount",
               [uid |-> r.user, filters |-> ListFilters],
               [r EXCEPT !.items = Len(r.res.list)])
    [] r.stage = "count" -> Respond(200, [r EXCEPT !.total = r.res.n])
    [] r.stage = "find" ->
         IF r.res.kind # "conv" THEN Respond(404, r)
         ELSE IF ~Owns(r) THEN Respond(403, r)
         ELSE IF r.h = "get" THEN Respond(200, r)
         ELSE Calls("remove", "deleteConversion", r.reqId, r)
    [] r.stage = "remove" -> Respond(IF r.res.b THEN 200 ELSE 500, r)

\* the request after the handler has responded or started to await: what
\* the response carries, or what the handler keeps while it awaits
Settled(n) ==
  IF n.kind = "respond"
    THEN [IdleProc EXCEPT !.pc = "done", !.h = n.r.h, !.status = n.status,
                          !.user = n.r.user, !.reqId = n.r.reqId,
                          !.items = n.r.items, !.total = n.r.total,
                          !.res = (IF n.r.h \in {"get", "convert"}
                                        /\ n.status = 200
                                     THEN n.r.res ELSE IdleProc.res)]
    ELSE [IdleProc EXCEPT !.pc = "parsing", !.h = n.r.h, !.stage = n.stage,
                          !.user = n.r.user]

\* the request resumed with the result a MemStorage method returned
ServedByMem(n, res) ==
  [n.r EXCEPT !.stage = n.stage, !.op = n.op, !.arg = n.arg,
              !.target = "mem", !.invokedOn = "mem", !.res = res,
              !.servedBy = "mem", !.answered = TRUE]

\* the handler of r run while the in-memory backend is active, up to its
\* response or to the await of the parser: the request and the data of
\* MemStorage afterwards.  A handler writes in its last storage call only
RECURSIVE MemRun(_)
MemRun(r) ==
  LET n == NextCall(r)
  IN  IF n.kind # "call" THEN [r |-> Settled(n), m |-> MemState(ResAbsent)]
      ELSE LET m == MemCall(n.op, n.arg)
               s == ServedByMem(n, m.res)
           IN  IF n.op \in WriteOps
                 THEN [r |-> Settled(NextCall(s)), m |-> m]
                 ELSE MemRun(s)

\* the request suspended in the MongoDBStorage method the proxy has called
\* (the method awaits getCollection, which calls connectToDatabase)
InvokedOnMongo(n) ==
  [n.r EXCEPT !.pc = (IF ConnectOutcome = "conn" THEN "query"
                      ELSE IF ConnectOutcome = "pending" THEN "connecting"
                      ELSE "returned"),
              !.stage = n.stage, !.op = n.op, !.arg = n.arg,
              !.target = "mongo", !.invokedOn = "mongo",
              !.res = (IF ConnectOutcome = "null" THEN MongoFailure(n.op)
                       ELSE [kind |-> "absent"]),
              !.servedBy = (IF ConnectOutcome = "null" THEN "mongo" ELSE ""),
              !.answered = FALSE]

\* the handler of request r of p is resumed
Continue(p, r) ==
  IF activeStorage = "mem"
    THEN LET run == MemRun(r)
         IN  /\ proc' = [proc EXCEPT ![p] = run.r]
             /\ users' = run.m.users
             /\ conversions' = run.m.conversions
             /\ userId' = run.m.userId
             /\ conversionId' = run.m.conversionId
             /\ UNCHANGED <<dbVars, connVars>>
    ELSE LET n == NextCall(r)
         IN  IF n.kind = "call"
               THEN /\ ConnectBegin
                    /\ proc' = [proc EXCEPT ![p] = InvokedOnMongo(n)]
                    /\ UNCHANGED <<memVars, dbVars>>
               ELSE /\ proc' = [proc EXCEPT ![p] = Settled(n)]
                    /\ UNCHANGED <<memVars, dbVars, connVars>>

\* the users registered before the requests of this model: two on the
\* in-memory backend and the same two on the persistent backend
RegisteredUsers ==
  [e \in 1..2 |->
     MemNewUser(MemObjectId(e), [email |-> IF e = 1 THEN "a@x" ELSE "b@x",
                                password |-> "hash"], 0)]
RegisteredDbUsers ==
  [e \in 1..2 |->
     MongoNewUser(DbObjectId(e), [email |-> IF e = 1 THEN "a@x" ELSE "b@x",
                                  password |-> "hash"], 0)]

\* the conversion user a has stored on each backend before the requests
StoredConversions ==
  <<MemNewConversion(MemObjectId(1), Upload(MemObjectId(1)), 0)>>
StoredDbConversions ==
  <<MongoNewConversion(DbObjectId(3), Upload(DbObjectId(1)), 0)>>

\* a request of this model: the id its token carries and the id in its
\* path.  A token was signed by the backend its user registered on, and
\* the path names the conversion user a has stored on that backend
OwnerSessions ==
  {<<MemObjectId(1), MemObjectId(1)>>, <<DbObjectId(1), DbObjectId(3)>>}
OtherSessions ==
  {<<MemObjectId(2), MemObjectId(1)>>, <<DbObjectId(2), DbObjectId(3)>>}

\* conversions created, or being created, by the requests
Converted ==
  (conversionId - 1) + (dbNextId - 3)
    + Cardinality({ p \in Procs : /\ proc[p].pc \in {"connecting", "query"}
                                  /\ proc[p].op = "createConversion" })

\* a request arrives: authenticate verifies the token and looks the user up
RouteBegins(p, h, token, id) ==
  /\ proc[p].pc = "idle"
  /\ Continue(p, [IdleProc EXCEPT !.h = h, !.stage = "start", !.arg = token,
                                  !.reqId = id])
  /\ UNCHANGED <<now, reachable, mgrVars, connectionOK, timerPc, probePc>>

\* the storage call a handler awaits has settled on the persistent backend
RouteContinues(p) ==
  /\ proc[p].pc = "returned" /\ proc[p].h \in RouteHandlers
  /\ Continue(p, proc[p])
  /\ UNCHANGED <<now, reachable, mgrVars, connectionOK, timerPc, probePc>>

\* multer and the PDF parser have settled: the conversion is stored
ConvertParsed(p) ==
  /\ proc[p].pc = "parsing"
  /\ Converted < MaxCreated
  /\ Continue(p, proc[p])
  /\ UNCHANGED <<now, reachable, mgrVars, connectionOK, timerPc, probePc>>

(***************************************************************************)
(* Both backends driven with the same calls (the IStorage contract).       *)
(***************************************************************************)
\* createConversion(data) on the in-memory and on the persistent backend
CreateOnBoth(data) ==
  /\ conversionId <= MaxConv
  /\ LET m == MemCreateConversion(data)
     IN  /\ conversions' = m.conversions
         /\ conversionId' = m.conversionId
  /\ \E r \in MongoCreateConversion(data) :
       /\ dbConversions' = r.dbConversions
       /\ dbNextId' = r.dbNextId
  /\ UNCHANGED <<users, userId, dbUsers, now, reachable, connVars, mgrVars,
                 connectionOK, timerPc, probePc, proc>>

\* deleteConversion of the n-th conversion created, on both backends
DeleteOnBoth(n) ==
  /\ n < conversionId
  /\ conversions' = MemDeleteConversion(MemObjectId(n)).conversions
  /\ \E r \in MongoDeleteConversion(DbObjectId(n)) :
       dbConversions' = r.dbConversions
  /\ UNCHANGED <<users, userId, conversionId, dbUsers, dbNextId, now,
                 reachable, connVars, mgrVars, connectionOK, timerPc, probePc,
                 proc>>

(***************************************************************************)
(* Specifications.                                                         *)
(***************************************************************************)
Callers == {"p1"}

Environment ==
  \/ ServerDown
  \/ ServerUp
  \/ OnDisconnected
  \/ OnError
  \/ OnReconnected

\* the selector and the probe its first run starts
Selector ==
  \/ useMongoDBWithFallback
  \/ ProbeConnected
  \/ ProbeAnswered

\* the eight public storage functions called by one caller while the
\* selector runs
Next ==
  \/ Environment
  \/ Selector
  \/ \E p \in Callers, op \in Ops : \E arg \in CallArgs(op) : Call(p, op, arg)
  \/ \E p \in Callers : MongoCallConnected(p)
  \/ \E p \in Callers : MongoCallAnswered(p)
  \/ \E p \in Callers : CallReturns(p)

Spec == Init /\ [][Next]_vars

\* the connection module and the storage manager with all their timers,
\* and one caller of a storage function
NextSel ==
  \/ Environment
  \/ Selector
  \/ ReconnectTimer
  \/ ReconnectTimerDone
  \/ ProbeTimer
  \/ \E p \in Callers : Call(p, "getUserByEmail", "a@x")
  \/ \E p \in Callers : MongoCallConnected(p)
  \/ \E p \in Callers : MongoCallAnswered(p)
  \/ \E p \in Callers : CallReturns(p)

SpecSel == Init /\ [][NextSel]_vars

\* the timers keep firing; connection attempts and store round trips end
Fairness ==
  /\ WF_vars(ReconnectTimer)
  /\ WF_vars(ReconnectTimerDone)
  /\ WF_vars(ProbeTimer)
  /\ WF_vars(ProbeConnected)
  /\ WF_vars(ProbeAnswered)
  /\ WF_vars(useMongoDBWithFallback)
  /\ \A p \in Callers : WF_vars(MongoCallConnected(p))
  /\ \A p \in Callers : WF_vars(MongoCallAnswered(p))
  /\ \A p \in Callers : WF_vars(CallReturns(p))

SpecSelFair == SpecSel /\ Fairness

\* the server has started: nothing is connected and no request is running
Started ==
  /\ now = 0
  /\ reachable \in BOOLEAN
  /\ readyState = 0
  /\ isConnected = FALSE
  /\ connectionAttempts = 0
  /\ listeners = FALSE
  /\ activeStorage = "mem"
  /\ hasAttemptedMigration = FALSE
  /\ mongoStorage = "null"
  /\ connectionOK = FALSE
  /\ timerPc = "idle"
  /\ probePc = "idle"
  /\ lastTick = [ran |-> FALSE, reported |-> FALSE, returned |-> FALSE]
  /\ migrationRuns = 0
  /\ mongoSwitches = 0
  /\ proc = [p \in Procs |-> IdleProc]

\* the two users have registered on both backends, and user a has stored
\* one conversion on each
InitRoutes ==
  /\ users = RegisteredUsers
  /\ conversions = StoredConversions
  /\ userId = 3
  /\ conversionId = 2
  /\ dbUsers = RegisteredDbUsers
  /\ dbConversions = StoredDbConversions
  /\ dbNextId = 4
  /\ Started

\* the two users have registered on both backends
InitConvert ==
  /\ users = RegisteredUsers
  /\ conversions = <<>>
  /\ userId = 3
  /\ conversionId = 1
  /\ dbUsers = RegisteredDbUsers
  /\ dbConversions = <<>>
  /\ dbNextId = 3
  /\ Started

\* GET /api/conversions of user a while the same user deletes the
\* conversion, and the selector runs
NextList ==
  \/ Environment
  \/ Selector
  \/ \E s \in OwnerSessions : RouteBegins("p1", "list", s[1], s[2])
  \/ \E s \in OwnerSessions : RouteBegins("p2", "delete", s[1], s[2])
  \/ \E p \in Procs : RouteContinues(p)
  \/ \E p \in Procs : MongoCallConnected(p)
  \/ \E p \in Procs : MongoCallAnswered(p)
  \/ \E p \in Procs : RequestEnds(p)

SpecList == InitRoutes /\ [][NextList]_vars

\* GET and DELETE /api/conversions/:id of user b for the conversion of
\* user a, while user a deletes it and the selector runs
NextOwner ==
  \/ Environment
  \/ Selector
  \/ \E h \in {"get", "delete"}, s \in OtherSessions :
        RouteBegins("p1", h, s[1], s[2])
  \/ \E s \in OwnerSessions : RouteBegins("p2", "delete", s[1], s[2])
  \/ \E p \in Procs : RouteContinues(p)
  \/ \E p \in Procs : MongoCallConnected(p)
  \/ \E p \in Procs : MongoCallAnswered(p)
  \/ \E p \in Procs : RequestEnds(p)

SpecOwner == InitRoutes /\ [][NextOwner]_vars

\* two DELETE /api/conversions/:id of user a for the same conversion, while
\* the selector runs
NextDelete ==
  \/ Environment
  \/ Selector
  \/ \E p \in Procs, s \in OwnerSessions :
        RouteBegins(p, "delete", s[1], s[2])
  \/ \E p \in Procs : RouteContinues(p)
  \/ \E p \in Procs : MongoCallConnected(p)
  \/ \E p \in Procs : MongoCallAnswered(p)
  \/ \E p \in Procs : RequestEnds(p)

SpecDelete == InitRoutes /\ [][NextDelete]_vars

\* POST /api/convert of user a, signed in on the in-memory backend, from
\* two clients, one of which also deletes the first conversion stored,
\* while the selector runs
NextConvert ==
  \/ Environment
  \/ Selector
  \/ \E p \in Procs : RouteBegins(p, "convert", MemObjectId(1), NoId)
  \/ RouteBegins("p2", "delete", MemObjectId(1), MemObjectId(1))
  \/ \E p \in Procs : ConvertParsed(p)
  \/ \E p \in Procs : RouteContinues(p)
  \/ \E p \in Procs : MongoCallConnected(p)
  \/ \E p \in Procs : MongoCallAnswered(p)
  \/ \E p \in Procs : RequestEnds(p)

SpecConvert == InitConvert /\ [][NextConvert]_vars

\* concurrent registration requests while the selector runs
NextReg ==
  \/ Environment
  \/ Selector
  \/ \E p \in Procs : RegisterBegins(p, "a@x")
  \/ \E p \in Procs : MongoCallConnected(p)
  \/ \E p \in Procs : MongoCallAnswered(p)
  \/ \E p \in Procs : RegisterLookedUp(p)
  \/ \E p \in Procs : RegisterHashed(p)
  \/ \E p \in Procs : RegisterCreated(p)
  \/ \E p \in Procs : RequestEnds(p)

SpecReg == Init /\ [][NextReg]_vars

\* the two backends holding the same conversions
NextQ ==
  \/ \E data \in InsertConversions : CreateOnBoth(data)
  \/ \E n \in 1..MaxConv : DeleteOnBoth(n)
  \/ Tick

\* the connection plays no part here: the store is taken to answer
InitQ == Init /\ reachable = TRUE

SpecQ == InitQ /\ [][NextQ]_vars
(***************************************************************************)
(* Properties.                                                             *)
(***************************************************************************)
\* the user's conversions held by the in-memory backend
OwnedBy(uid) == SelectSeq(conversions, LAMBDA c : c.userId = uid)

\* the field a list call sorts by
SortFieldOf(sortOptions) ==
  IF sortOptions.field # "" THEN sortOptions.field ELSE "convertedAt"

SortKey(c, field) ==
  IF field = "filename" THEN c.filename
  ELSE IF field = "originalSize" THEN c.originalSize
  ELSE c.convertedAt

\* no two of the user's conversions are equal in the sort key
NoTies(uid, sortOptions) ==
  \A i, j \in 1..Len(OwnedBy(uid)) :
    i # j => SortKey(OwnedBy(uid)[i], SortFieldOf(sortOptions))
               # SortKey(OwnedBy(uid)[j], SortFieldOf(sortOptions))

\* C1: when the two backends hold the same conversions, every list call
\* and every count call with the same user, filters, sort options and
\* pagination returns the same records in the same order and the same
\* count on the persistent backend as on the in-memory backend, provided no
\* two of the user's conversions are equal in the sort key.
C1_BackendsAgree ==
  Contents(conversions) = Contents(dbConversions) =>
    \A uid \in UserIds, filters \in Filters :
      /\ MongoGetConversionsCount(dbConversions, uid, filters)
           = MemGetConversionsCount(conversions, uid, filters)
      /\ \A sortOptions \in SortOptionsSet, pagination \in Paginations :
           NoTies(uid, sortOptions) =>
             \A l \in MongoGetConversions(dbConversions, uid, filters,
                                          sortOptions, pagination) :
               Contents(l) = Contents(MemGetConversions(conversions, uid,
                                        filters, sortOptions, pagination))

\* C2: once the selector has switched from the in-memory backend to the
\* persistent backend, every user and every conversion created on the
\* in-memory backend during the outage can be read through the persistent
\* backend.
C2_OutageDataReadable ==
  activeStorage = "mongo" /\ mongoSwitches = 1 =>
    /\ \A i \in 1..Len(users) :
         \A r \in MongoGetUserByEmail(users[i].email) :
           /\ r.res.kind = "user"
           /\ r.res.user.password = users[i].password
    /\ \A i \in 1..Len(conversions) :
         \A l \in MongoGetConversions(dbConversions, conversions[i].userId,
                                      NoFilters, NoSort, NoPage) :
           \E k \in 1..Len(l) : Content(l[k]) = Content(conversions[i])

C4_SelectorTick ==
  /\ activeStorage \in {"mem", "mongo"}
  /\ lastTick.ran =>
       /\ activeStorage = (IF lastTick.reported THEN "mongo" ELSE "mem")
       /\ lastTick.returned = (activeStorage = "mongo")

\* a run of the selector has fallen back from the persistent backend to
\* the in-memory backend and returned false
C4_FellBack ==
  /\ lastTick.ran /\ ~lastTick.reported /\ ~lastTick.returned
  /\ mongoSwitches >= 1
  /\ activeStorage = "mem"

\* C5: the first switch from the in-memory backend to the persistent
\* backend marks migration as attempted, the mark is never removed, and
\* the migration step runs once at most, on that first switch.
C5_MigrationOnce ==
  /\ [](/\ migrationRuns <= 1
        /\ hasAttemptedMigration = (migrationRuns = 1)
        /\ hasAttemptedMigration = (mongoSwitches >= 1))
  /\ [][hasAttemptedMigration => hasAttemptedMigration']_vars

\* the selector has switched to the persistent backend a second time and
\* the migration step has run once
C5_SwitchedAgain ==
  /\ mongoSwitches = 2 /\ activeStorage = "mongo"
  /\ migrationRuns = 1 /\ hasAttemptedMigration

\* the identifiers generated by a backend
Made(backend) == IF backend = "mem" THEN "mem" ELSE "db"

\* C6: a call of a public storage function runs on the backend that was
\* active when the call was made, however the selector switches before the
\* call settles: that backend produces the result, and only its data can
\* change when the call completes.
C6_BoundAtInvocation ==
  /\ [](\A p \in Procs :
          proc[p].pc = "returned" /\ proc[p].h = "call" =>
            /\ proc[p].servedBy = proc[p].invokedOn
            /\ proc[p].res.kind = "user" =>
                 proc[p].res.user.id.gen = Made(proc[p].invokedOn)
            /\ proc[p].res.kind = "conv" =>
                 proc[p].res.conv.id.gen = Made(proc[p].invokedOn))
  /\ [][\A p \in Procs :
          proc[p].pc \in {"connecting", "query"} /\ proc[p].h = "call"
          /\ proc'[p].pc = "returned" =>
            IF proc[p].invokedOn = "mongo" THEN UNCHANGED memVars
            ELSE UNCHANGED dbVars]_vars

\* a createConversion call made while the persistent backend was active
\* has stored its record there although the selector has fallen back to
\* the in-memory backend in between
C6_SettledAfterSwitch ==
  \E p \in Procs :
    /\ proc[p].pc = "returned" /\ proc[p].h = "call"
    /\ proc[p].op = "createConversion" /\ proc[p].res.kind = "conv"
    /\ proc[p].invokedOn = "mongo" /\ activeStorage = "mem"

\* no two users of s have the same email
EmailsDistinct(s) ==
  \A i, j \in 1..Len(s) : i # j => s[i].email # s[j].email

\* C7: no two users held by a backend have the same email, and a
\* registration request for an email that exists already is answered 400
\* and creates no user.
C7_EmailUnique ==
  /\ EmailsDistinct(users)
  /\ EmailsDistinct(dbUsers)

\* C8: on each backend, for every user and every filter, the count call
\* returns the length of the list the list call returns for that user and
\* filter without pagination.
C8_CountIsListLength ==
  \A uid \in UserIds, filters \in Filters :
    /\ MemGetConversionsCount(conversions, uid, filters)
         = Len(MemGetConversions(conversions, uid, filters, NoSort, NoPage))
    /\ \A l \in MongoGetConversions(dbConversions, uid, filters, NoSort,
                                    NoPage) :
         MongoGetConversionsCount(dbConversions, uid, filters) = Len(l)

\* on both backends a filter with a size range counts one of a user's two
\* conversions
C8_CountsPart ==
  \E uid \in UserIds, filters \in Filters :
    /\ filters.sizeMax # Absent
    /\ Len(OwnedBy(uid)) = 2
    /\ MemGetConversionsCount(conversions, uid, filters) = 1
    /\ MongoGetConversionsCount(dbConversions, uid, filters) = 1
    /\ MongoGetConversionsCount(dbConversions, uid, NoFilters) = 2

\* part occurs in name when the case of letters is disregarded
ContainsIgnoringCase(name, part) ==
  \E i \in 0..(Len(name) - Len(part)) :
    \A j \in 1..Len(part) : toLowerChar(name[i + j]) = toLowerChar(part[j])

\* conversion c of user uid satisfies every filter that is present
Satisfies(c, uid, filters) ==
  /\ c.userId = uid
  /\ filters.search # <<>> => ContainsIgnoringCase(c.filename, filters.search)
  /\ filters.dateFrom # Absent => c.convertedAt >= filters.dateFrom
  /\ filters.dateTo # Absent => c.convertedAt <= filters.dateTo
  /\ filters.sizeMin # Absent => c.originalSize >= filters.sizeMin
  /\ filters.sizeMax # Absent => c.originalSize <= filters.sizeMax

RECURSIVE ConcatPages(_, _)
ConcatPages(pages, k) ==
  IF k = 0 THEN <<>> ELSE ConcatPages(pages, k - 1) \o pages[k]

\* the elements of full at positions [(page-1)*limit, page*limit)
Positions(full, page, limit) ==
  SubSeq(full, (page - 1) * limit + 1, Min(page * limit, Len(full)))

\* C10: on each backend, for every user, filter, sort and page size, each
\* page holds the elements of the unpaginated list at positions
\* [(p-1)*N, p*N), at most N of them, and the pages taken in order up to
\* the first empty one make up the unpaginated list, nothing repeated and
\* nothing left out.
C10_PagesConcatenate ==
  \A uid \in UserIds, filters \in Filters, sortOptions \in SortOptionsSet,
     limit \in PageLimits :
    LET memFull == MemGetConversions(conversions, uid, filters, sortOptions,
                                     NoPage)
        memPages == [p \in Pages |->
                       MemGetConversions(conversions, uid, filters,
                                         sortOptions,
                                         [page |-> p, limit |-> limit])]
        dbFull == MongoGetConversions(dbConversions, uid, filters,
                                      sortOptions, NoPage)
        dbPages == [p \in Pages |->
                      MongoGetConversions(dbConversions, uid, filters,
                                          sortOptions,
                                          [page |-> p, limit |-> limit])]
    IN  /\ \A p \in Pages : memPages[p] = Positions(memFull, p, limit)
        /\ ConcatPages(memPages, MaxConv + 1) = memFull
        /\ \A pages \in [Pages -> UNION { dbPages[p] : p \in Pages }] :
             (\A p \in Pages : pages[p] \in dbPages[p]) =>
               /\ \A p \in Pages : Len(pages[p]) <= limit
               /\ ConcatPages(pages, MaxConv + 1) \in dbFull

\* p's storage call op settles in this step, carried out by its backend
Settles(p, op) ==
  /\ proc[p].pc \in {"idle", "query"}
  /\ proc'[p].pc = "returned" /\ proc'[p].h = "call"
  /\ proc'[p].op = op
  /\ proc'[p].answered

\* s without the conversion that has identifier id
Without(s, id) == SelectSeq(s, LAMBDA c : c.id # id)

\* s holds a conversion with identifier id
Holds(s, id) == \E i \in 1..Len(s) : s[i].id = id

\* C11: deleteConversion(id) returns true exactly when the backend held a
\* conversion with that id at the call and removed it; afterwards
\* getConversion(id) is absent and every other conversion is stored
\* unchanged; a second deleteConversion(id) returns false and raises no
\* error.
C11_DeleteOnce ==
  /\ [][\A p \in Procs :
          Settles(p, "deleteConversion") =>
            /\ proc'[p].res.kind = "bool"
            /\ IF proc'[p].servedBy = "mem"
                 THEN /\ proc'[p].res.b = Holds(conversions, proc'[p].arg)
                      /\ conversions' = Without(conversions, proc'[p].arg)
                 ELSE /\ proc'[p].res.b = Holds(dbConversions, proc'[p].arg)
                      /\ dbConversions'
                           = Without(dbConversions, proc'[p].arg)]_vars
  /\ [](\A p \in Procs :
          /\ proc[p].pc = "returned" /\ proc[p].h = "call"
          /\ proc[p].op = "deleteConversion" /\ proc[p].answered
          => IF proc[p].servedBy = "mem"
               THEN MemGetConversion(proc[p].arg).res = ResAbsent
               ELSE \A r \in MongoGetConversion(proc[p].arg) :
                      r.res = ResAbsent)

\* the in-memory backend had created the conversion, it has been deleted,
\* and a further deleteConversion of it has returned false
C11_SecondDelete ==
  \E p \in Procs :
    /\ proc[p].pc = "returned" /\ proc[p].op = "deleteConversion"
    /\ proc[p].answered /\ proc[p].servedBy = "mem"
    /\ proc[p].arg = MemObjectId(1) /\ conversionId > 1
    /\ proc[p].res = ResBool(FALSE)

\* C12: createConversion(data) followed at once by getConversion of the
\* returned id on the same backend returns a record whose userId, filename,
\* originalSize and xmlContent are those of data and whose id and
\* convertedAt are those of the record createConversion returned.
C12_CreateThenGet ==
  \A p \in Procs :
    /\ proc[p].pc = "returned" /\ proc[p].h = "call"
    /\ proc[p].op = "createConversion" /\ proc[p].res.kind = "conv"
    => LET made == proc[p].res.conv
           data == proc[p].arg
           Same(got) ==
             /\ got.kind = "conv"
             /\ got.conv.userId = data.userId
             /\ got.conv.filename = data.filename
             /\ got.conv.originalSize = data.originalSize
             /\ got.conv.xmlContent = data.xmlContent
             /\ got.conv.id = made.id
             /\ got.conv.convertedAt = made.convertedAt
       IN  IF proc[p].servedBy = "mem"
             THEN Same(MemGetConversion(made.id).res)
             ELSE \A r \in MongoGetConversion(made.id) : Same(r.res)

\* createConversion has returned a record of the persistent backend, which
\* holds a user as well
C12_CreatedInStore ==
  \E p \in Procs :
    /\ proc[p].pc = "returned" /\ proc[p].op = "createConversion"
    /\ proc[p].servedBy = "mongo" /\ proc[p].res.kind = "conv"
    /\ proc[p].res.conv.id = DbObjectId(2)

\* the user's documents held by the persistent backend
DbOwnedBy(uid) == SelectSeq(dbConversions, LAMBDA d : d.userId = uid)

\* C13: on each backend every record a list call returns for a user has
\* that userId, a count call counts none but that user's records, and a
\* user without conversions gets the empty list and the count 0 however
\* many conversions other users have.
C13_ScopedToUser ==
  \A uid \in UserIds, filters \in Filters :
    LET memList == MemGetConversions(conversions, uid, filters, NoSort,
                                     NoPage)
        memCount == MemGetConversionsCount(conversions, uid, filters)
        dbLists == MongoGetConversions(dbConversions, uid, filters, NoSort,
                                       NoPage)
        dbCount == MongoGetConversionsCount(dbConversions, uid, filters)
    IN  /\ \A i \in 1..Len(memList) : memList[i].userId = uid
        /\ memCount <= Len(OwnedBy(uid))
        /\ filters = NoFilters => memCount = Len(OwnedBy(uid))
        /\ OwnedBy(uid) = <<>> => memList = <<>> /\ memCount = 0
        /\ \A l \in dbLists : \A i \in 1..Len(l) : l[i].userId = uid
        /\ dbCount <= Len(DbOwnedBy(uid))
        /\ filters = NoFilters => dbCount = Len(DbOwnedBy(uid))
        /\ DbOwnedBy(uid) = <<>> => dbLists = {<<>>} /\ dbCount = 0

\* one user has no conversion while the other has two on each backend
C13_OtherUsersOnly ==
  \E uid \in UserIds :
    /\ OwnedBy(uid) = <<>> /\ DbOwnedBy(uid) = <<>>
    /\ Len(conversions) = 2 /\ Len(dbConversions) = 2
    /\ MemGetConversions(conversions, uid, NoFilters, NoSort, NoPage) = <<>>
    /\ MongoGetConversionsCount(dbConversions, uid, NoFilters) = 0

Reverse(s) == [i \in 1..Len(s) |-> s[Len(s) + 1 - i]]

\* the sizes along s never decrease
SizesAscend(s) ==
  \A i \in 1..(Len(s) - 1) : s[i].originalSize <= s[i + 1].originalSize

BySizeAsc == [field |-> "originalSize", order |-> "asc"]
BySizeDesc == [field |-> "originalSize", order |-> "desc"]

\* C14: on each backend, for a user no two of whose conversions have the
\* same originalSize and for every filter, the list sorted by originalSize
\* descending is the reverse of the list sorted ascending, and the sizes of
\* the ascending list never decrease.
C14_SizeOrdersReverse ==
  \A uid \in UserIds :
    NoTies(uid, BySizeAsc) =>
      \A filters \in Filters :
        LET memAsc == MemGetConversions(conversions, uid, filters, BySizeAsc,
                                        NoPage)
            memDesc == MemGetConversions(conversions, uid, filters,
                                         BySizeDesc, NoPage)
            dbAsc == MongoGetConversions(dbConversions, uid, filters,
                                         BySizeAsc, NoPage)
            dbDesc == MongoGetConversions(dbConversions, uid, filters,
                                          BySizeDesc, NoPage)
        IN  /\ memDesc = Reverse(memAsc)
            /\ SizesAscend(memAsc)
            /\ \A la \in dbAsc : SizesAscend(la)
            /\ \A la \in dbAsc, ld \in dbDesc : ld = Reverse(la)

\* a user's two conversions were created with the larger size first, so
\* that the ascending list of each backend is not the order of creation
C14_LargerFirst ==
  \E uid \in UserIds :
    /\ Len(OwnedBy(uid)) = 2 /\ Len(DbOwnedBy(uid)) = 2
    /\ OwnedBy(uid)[1].originalSize > OwnedBy(uid)[2].originalSize
    /\ MemGetConversions(conversions, uid, NoFilters, BySizeAsc, NoPage)
         = Reverse(OwnedBy(uid))
    /\ MongoGetConversions(dbConversions, uid, NoFilters, BySizeDesc, NoPage)
         = {DbOwnedBy(uid)}

\* p's call has settled on the persistent backend without having been
\* carried out: the collection was unavailable or the store call threw
Failed(p) ==
  /\ proc[p].pc = "returned" /\ proc[p].h = "call"
  /\ proc[p].invokedOn = "mongo" /\ ~proc[p].answered

\* C15: on the persistent backend a read, count or delete that fails is
\* not propagated to the caller: getUserById, getUserByEmail and
\* getConversion return absent, getConversions the empty list,
\* getConversionsCount 0 and deleteConversion false.
C15_ReadsDegrade ==
  \A p \in Procs :
    Failed(p) =>
      /\ proc[p].op \in {"getUserById", "getUserByEmail", "getConversion"}
           => proc[p].res = ResAbsent
      /\ proc[p].op = "getConversions" => proc[p].res = ResList(<<>>)
      /\ proc[p].op = "getConversionsCount" => proc[p].res = ResCount(0)
      /\ proc[p].op = "deleteConversion" => proc[p].res = ResBool(FALSE)

\* getConversions has failed and returned the empty list although the
\* store holds a conversion of the user
C15_FailureLooksEmpty ==
  \E p \in Procs :
    /\ Failed(p) /\ proc[p].op = "getConversions"
    /\ proc[p].res = ResList(<<>>)
    /\ DbOwnedBy(proc[p].arg.uid) # <<>>

\* C16: on the persistent backend createUser and createConversion reject
\* when the write cannot be performed: no record is returned and none is
\* added to the store.
C16_WritesReject ==
  /\ [](\A p \in Procs :
          Failed(p) /\ proc[p].op \in {"createUser", "createConversion"}
            => proc[p].res = ResError)
  /\ [][\A p \in Procs :
          /\ proc[p].pc \in {"idle", "connecting", "query"}
          /\ proc'[p].pc = "returned" /\ proc'[p].h = "call"
          /\ proc'[p].op \in {"createUser", "createConversion"}
          /\ proc'[p].invokedOn = "mongo" /\ ~proc'[p].answered
          => UNCHANGED dbVars]_vars

\* createUser has been rejected because the collection was unavailable,
\* and the store holds no user
C16_CreateRejected ==
  \E p \in Procs :
    /\ Failed(p) /\ proc[p].op = "createUser"
    /\ proc[p].res = ResError
    /\ dbUsers = <<>>

\* C17: an operation of the persistent backend invoked while the store is
\* disconnected fails fast: it returns its failure result at once, starts
\* no connection attempt and leaves connectionAttempts unchanged.
C17_FailsFast ==
  [][\A p \in Procs :
       /\ proc[p].pc = "idle" /\ proc'[p].h = "call"
       /\ proc'[p].invokedOn = "mongo"
       /\ readyState = 0
       => /\ proc'[p].pc = "returned" /\ ~proc'[p].answered
          /\ proc'[p].res = MongoFailure(proc'[p].op)
          /\ readyState' = 0
          /\ connectionAttempts' = connectionAttempts]_vars

\* the callers of connectToDatabase that are suspended in mongoose.connect
Connecting ==
  (IF timerPc = "connecting" THEN {"timer"} ELSE {})
    \cup (IF probePc = "connecting" THEN {"probe"} ELSE {})
    \cup { p \in Procs : proc[p].pc = "connecting" }

\* C18: connectionAttempts stays within 0..MAX_CONNECTION_ATTEMPTS in every
\* interleaving of the callers of connectToDatabase; an attempt is started
\* only while the counter is below the maximum and adds one to it, an
\* attempt that ends in success sets it to 0, and it decreases in no other
\* way.
C18_AttemptsBounded ==
  /\ [](connectionAttempts \in 0..MAX_CONNECTION_ATTEMPTS)
  /\ [][/\ Connecting' \ Connecting # {}
             => /\ connectionAttempts < MAX_CONNECTION_ATTEMPTS
                /\ connectionAttempts' = connectionAttempts + 1
        /\ connectionAttempts' > connectionAttempts
             => /\ Connecting' \ Connecting # {}
                /\ connectionAttempts' = connectionAttempts + 1
        /\ Connecting \ Connecting' # {} /\ readyState' = 1
             => connectionAttempts' = 0
        /\ connectionAttempts' < connectionAttempts
             => /\ Connecting \ Connecting' # {}
                /\ readyState' = 1
                /\ connectionAttempts' = 0]_vars

\* five attempts have failed one after the other and none is under way
C18_GaveUp ==
  /\ connectionAttempts = MAX_CONNECTION_ATTEMPTS
  /\ Connecting = {}
  /\ readyState = 0

\* C19: the selector follows the persistent backend's own probe: when the
\* most recent checkConnection has ended with connectionOK false, the
\* selector tick leaves the in-memory backend active, whatever the cached
\* connection flag reads.
C19_FollowsProbe ==
  [][/\ useMongoDBWithFallback
     /\ mongoStorage = "created" /\ probePc = "idle"
     /\ ~connectionOK
     => activeStorage' = "mem"]_vars

\* a filter object holding the search string only
SearchOnly(search) ==
  [given |-> TRUE, search |-> search, dateFrom |-> Absent, dateTo |-> Absent,
   sizeMin |-> Absent, sizeMax |-> Absent]

\* C20: on both backends the search filter selects exactly the user's
\* conversions whose filename contains the search string, every character
\* of it taken literally and case disregarded, for every non-empty search
\* string.
C20_SearchLiteral ==
  \A uid \in UserIds, search \in Searches \ {<<>>} :
    LET mem == MemGetConversions(conversions, uid, SearchOnly(search),
                                 NoSort, NoPage)
    IN  /\ { mem[i].filename : i \in 1..Len(mem) }
             = { conversions[i].filename :
                   i \in { k \in 1..Len(conversions) :
                             Satisfies(conversions[k], uid,
                                       SearchOnly(search)) } }
        /\ \A got \in MongoGetConversions(dbConversions, uid,
                                          SearchOnly(search), NoSort, NoPage) :
             /\ Len(got) = Len(mem)
             /\ { got[i].filename : i \in 1..Len(got) }
                  = { dbConversions[i].filename :
                        i \in { k \in 1..Len(dbConversions) :
                                  Satisfies(dbConversions[k], uid,
                                            SearchOnly(search)) } }

\* the filenames of l, lower-cased, never decrease
NamesAscend(l) ==
  \A i, j \in 1..Len(l) :
    i < j => ~StrLess(toLowerCase(l[j].filename), toLowerCase(l[i].filename))

\* the filenames of l, lower-cased, never increase
NamesDescend(l) ==
  \A i, j \in 1..Len(l) :
    i < j => ~StrLess(toLowerCase(l[i].filename), toLowerCase(l[j].filename))

ByName(order) == [field |-> "filename", order |-> order]

\* C21: on both backends a list sorted by filename is ordered by the
\* lower-cased filenames: of two conversions whose lower-cased names
\* differ, the one with the smaller lower-cased name comes first in
\* ascending and last in descending order.
C21_NamesIgnoreCase ==
  \A uid \in UserIds :
    /\ NamesAscend(MemGetConversions(conversions, uid, NoFilters,
                                     ByName("asc"), NoPage))
    /\ NamesDescend(MemGetConversions(conversions, uid, NoFilters,
                                      ByName("desc"), NoPage))
    /\ \A l \in MongoGetConversions(dbConversions, uid, NoFilters,
                                    ByName("asc"), NoPage) : NamesAscend(l)
    /\ \A l \in MongoGetConversions(dbConversions, uid, NoFilters,
                                    ByName("desc"), NoPage) : NamesDescend(l)

\* C22: a run of the selector whose reachability report matches the active
\* backend (reachable while the persistent backend is active, unreachable
\* while the in-memory backend is active) makes no switch: the active
\* backend, the migration flag, the count of migrations and of switches
\* and the data of both backends are unchanged.
C22_SelectorIdempotent ==
  [][useMongoDBWithFallback /\ isConnected' = (activeStorage = "mongo")
       => UNCHANGED <<activeStorage, hasAttemptedMigration, migrationRuns,
                      mongoSwitches, memVars, dbVars>>]_vars

\* the selector has run and reported the store unreachable while the
\* in-memory backend, which holds a user, was active: no switch to the
\* persistent backend was ever made
C22_StayedInMemory ==
  /\ lastTick.ran /\ ~lastTick.reported /\ ~lastTick.returned
  /\ activeStorage = "mem" /\ mongoSwitches = 0
  /\ ~hasAttemptedMigration
  /\ users # <<>>

\* the read operations of a backend and the arguments tried on them
ReadOps ==
  {"getUserById", "getUserByEmail", "getConversions", "getConversionsCount",
   "getConversion"}
ReadArgs(op) ==
  CASE op = "getUserById" -> CallIds
    [] op = "getUserByEmail" -> Emails
    [] op = "getConversions" ->
         [uid : UserIds, filters : {NoFilters}, sortOptions : SortOptionsSet,
          pagination : Paginations]
         \cup [uid : UserIds, filters : Filters, sortOptions : {NoSort},
               pagination : {NoPage}]
    [] op = "getConversionsCount" -> [uid : UserIds, filters : Filters]
    [] op = "getConversion" -> CallIds

\* C28: the read operations of the in-memory backend leave the stored
\* users and conversions, their order and both id counters as they are,
\* whatever the arguments.
C28_ReadsPure ==
  \A op \in ReadOps :
    \A arg \in ReadArgs(op) :
      LET m == MemCall(op, arg)
      IN  /\ m.users = users
          /\ m.conversions = conversions
          /\ m.userId = userId
          /\ m.conversionId = conversionId

\* a sorted list call returns the user's two conversions in another order
\* than the one they are stored in
C28_SortedCopy ==
  \E uid \in UserIds, sortOptions \in SortOptionsSet :
    LET m == MemCall("getConversions",
                     [uid |-> uid, filters |-> NoFilters,
                      sortOptions |-> sortOptions, pagination |-> NoPage])
    IN  /\ Len(m.res.list) = 2
        /\ m.res.list # OwnedBy(uid)
        /\ m.conversions = conversions

(***************************************************************************)
(* C23: only the selector changes the active backend.  A step that changes *)
(* the active-backend reference or the migration flag is a run of          *)
(* useMongoDBWithFallback, so no storage function and no route handler     *)
(* changes them; the active backend is the in-memory instance or the       *)
(* persistent instance, which exists by then; and the persistent instance, *)
(* once created, is never constructed again (its constructor would start   *)
(* another checkConnection).                                               *)
(***************************************************************************)
C23_OnlySelectorSwitches ==
  [][/\ (\/ activeStorage' # activeStorage
         \/ hasAttemptedMigration' # hasAttemptedMigration)
          => useMongoDBWithFallback
     /\ activeStorage' \in {"mem", "mongo"}
     /\ activeStorage' = "mongo" => mongoStorage' = "created"
     /\ mongoStorage = "created" => mongoStorage' = "created"
     /\ (useMongoDBWithFallback /\ mongoStorage = "created")
          => UNCHANGED <<probePc, connectionOK, connVars>>]_vars

\* a DELETE request has been served by the persistent backend, which the
\* selector made active, and the selector has run again since
C23_ServedAfterSwitch ==
  /\ activeStorage = "mongo"
  /\ hasAttemptedMigration
  /\ proc["p2"].pc = "done"
  /\ proc["p2"].status = 200
  /\ proc["p2"].user = DbObjectId(1)
  /\ lastTick.ran /\ lastTick.returned

\* the ids of the records of l increase from one record to the next
IdsAscend(l) == \A i, j \in 1..Len(l) : i < j => l[i].id.n < l[j].id.n

\* the records of l that s does not hold
Added(s, l) ==
  { i \in 1..Len(l) : \A j \in 1..Len(s) : s[j] # l[i] }

\* the request of p is answered 200 by POST /api/convert with a conversion
\* stored by the in-memory backend
ConvertedInMemory(r) ==
  /\ r.pc = "done" /\ r.h = "convert" /\ r.status = 200
  /\ r.res.conv.id.gen = "mem"

(***************************************************************************)
(* C24: the ids MemStorage assigns are unique and increase in creation     *)
(* order.  In every step the stored users and conversions are in           *)
(* increasing order of id, the two counters do not decrease, and a record  *)
(* added in the step gets an id from the old counter upwards, above every  *)
(* id assigned before, deleted or not; a POST /api/convert answered from   *)
(* memory appends its record to the conversions stored and its id differs  *)
(* from the id any other answered request has received.                    *)
(***************************************************************************)
C24_IdsFresh ==
  [][/\ IdsAscend(users') /\ IdsAscend(conversions')
     /\ userId' >= userId /\ conversionId' >= conversionId
     /\ \A i \in 1..Len(conversions) : conversions[i].id.n < conversionId
     /\ \A i \in 1..Len(users) : users[i].id.n < userId
     /\ \A i \in Added(conversions, conversions') :
          /\ conversions'[i].id.n >= conversionId
          /\ conversions'[i].id.n < conversionId'
     /\ \A i \in Added(users, users') :
          /\ users'[i].id.n >= userId
          /\ users'[i].id.n < userId'
     /\ \A p \in Procs :
          (proc[p].pc # "done" /\ ConvertedInMemory(proc'[p]))
            => /\ conversions' = Append(conversions, proc'[p].res.conv)
               /\ \A q \in Procs \ {p} :
                    ConvertedInMemory(proc[q])
                      => proc[q].res.conv.id # proc'[p].res.conv.id]_vars

\* two POST /api/convert requests have been answered from memory with the
\* ids 1 and 2, and both records are stored
C24_BothStored ==
  /\ ConvertedInMemory(proc["p1"]) /\ ConvertedInMemory(proc["p2"])
  /\ proc["p1"].res.conv.id = MemObjectId(2)
  /\ proc["p2"].res.conv.id = MemObjectId(1)
  /\ Len(conversions) = 2

\* every record of s whose id is still in l is in l as it was
Kept(s, l) ==
  \A i \in 1..Len(s), j \in 1..Len(l) : s[i].id = l[j].id => s[i] = l[j]

\* the ids of the records of s that l no longer holds
Gone(s, l) ==
  { s[i].id : i \in { k \in 1..Len(s) :
                        \A j \in 1..Len(l) : l[j].id # s[k].id } }

\* this step completes a deleteConversion(id) that returns true
Deletes(id) ==
  \E p \in Procs :
    /\ proc[p].pc # "returned" /\ proc'[p].pc = "returned"
    /\ proc'[p].op = "deleteConversion" /\ proc'[p].arg = id
    /\ proc'[p].res.b

(***************************************************************************)
(* C25: stored records are never updated.  In every step, of a storage     *)
(* function, of the selector or of the connection, a user or conversion    *)
(* that either backend holds before and after the step has the same field  *)
(* values, no user leaves a backend, and a conversion leaves a backend     *)
(* only in a step that completes deleteConversion of its id.               *)
(***************************************************************************)
C25_NeverUpdated ==
  [][/\ Kept(users, users') /\ Kept(conversions, conversions')
     /\ Kept(dbUsers, dbUsers') /\ Kept(dbConversions, dbConversions')
     /\ Gone(users, users') = {} /\ Gone(dbUsers, dbUsers') = {}
     /\ \A id \in Gone(conversions, conversions')
                    \cup Gone(dbConversions, dbConversions') :
          Deletes(id)]_vars

\* the in-memory backend holds the second conversion created after the
\* first has been deleted, while the persistent backend is active
C25_OneLeft ==
  /\ Len(conversions) = 1
  /\ conversions[1].id = MemObjectId(2)
  /\ Len(users) = 0
  /\ activeStorage = "mongo"

\* user b, who owns no conversion, as either backend knows the user
OtherUsers == {MemObjectId(2), DbObjectId(2)}

\* a backend holds a conversion with this id
Stored(id) ==
  \/ \E i \in 1..Len(conversions) : conversions[i].id = id
  \/ \E i \in 1..Len(dbConversions) : dbConversions[i].id = id

\* what getConversion tells the handler of p in the step that answers its
\* request: the value the persistent backend has returned to it, or what
\* the in-memory backend finds in this step
Found(p) ==
  IF proc[p].pc = "returned" /\ proc[p].stage = "find"
    THEN proc[p].res.kind = "conv"
    ELSE /\ activeStorage = "mem"
         /\ \E i \in 1..Len(conversions) :
              conversions[i].id = proc'[p].reqId

(***************************************************************************)
(* C26 as stated: a GET or DELETE /api/conversions/:id of an authenticated *)
(* user for a stored conversion of another user is answered 403.           *)
(***************************************************************************)
C26_OthersGet403 ==
  \A p \in Procs :
    (/\ proc[p].pc = "done" /\ proc[p].h \in {"get", "delete"}
     /\ proc[p].user \in OtherUsers
     /\ Stored(proc[p].reqId))
      => proc[p].status = 403

(***************************************************************************)
(* C26, amended: no step of a request of another user changes the data of  *)
(* either backend, and such a request is never answered 200: it is         *)
(* answered 403 when getConversion returns the conversion to the handler   *)
(* and 404 when it returns nothing, which is also what it returns when the *)
(* query fails or when the backend has been switched since the user signed *)
(* in; a GET answered 200 carries a conversion of the authenticated user.  *)
(***************************************************************************)
C26_OwnerOnly ==
  [][\A p \in Procs :
       /\ (proc'[p] # proc[p] /\ proc'[p].user \in OtherUsers)
            => /\ UNCHANGED <<memVars, dbVars>>
               /\ proc'[p].status # 200
               /\ (proc'[p].pc = "done" /\ proc[p].pc # "done")
                    => proc'[p].status = (IF Found(p) THEN 403 ELSE 404)
       /\ (proc'[p].pc = "done" /\ proc'[p].h = "get"
           /\ proc'[p].status = 200)
            => proc'[p].res.conv.userId = proc'[p].user]_vars

\* user b's DELETE has been answered 403 by the persistent backend, which
\* still holds the conversion
C26_Refused ==
  /\ proc["p1"].pc = "done" /\ proc["p1"].h = "delete"
  /\ proc["p1"].user = DbObjectId(2) /\ proc["p1"].status = 403
  /\ activeStorage = "mongo"
  /\ dbConversions = StoredDbConversions

(***************************************************************************)
(* C27: switching the active backend never modifies the data of the        *)
(* in-memory backend.  A step that changes the active backend leaves the   *)
(* users, the conversions and the counters of MemStorage as they are, and  *)
(* so does every step taken while the persistent backend is active; and    *)
(* whenever the in-memory backend is active, also after a fail-back, a     *)
(* DELETE of user a for the conversion stored in memory finds the user and *)
(* is answered 200 if the conversion is stored and 404 if it is not.       *)
(***************************************************************************)
C27_MemoryKept ==
  [][/\ (activeStorage' # activeStorage \/ activeStorage = "mongo")
          => UNCHANGED memVars
     /\ \A p \in Procs :
          (/\ activeStorage = "mem"
           /\ proc[p].pc = "idle" /\ proc'[p].pc = "done"
           /\ proc'[p].reqId = MemObjectId(1))
            => /\ proc'[p].user = MemObjectId(1)
               /\ proc'[p].status =
                    (IF conversions = StoredConversions THEN 200 ELSE 404)]_vars

\* the selector has switched to the persistent backend twice and failed
\* back; the users and the conversion stored in memory are as they were,
\* and a DELETE served by the persistent backend has been answered
C27_FailedBack ==
  /\ activeStorage = "mem" /\ mongoSwitches = 2
  /\ users = RegisteredUsers /\ conversions = StoredConversions
  /\ proc["p1"].pc = "done" /\ proc["p1"].status = 200
  /\ proc["p1"].user = DbObjectId(1)

\* the ids of the conversions of l
IdsOf(l) == { l[i].id : i \in 1..Len(l) }

\* this step is the call of deleteConversion made for the DELETE request of
\* p, and the call returns true
DeleteSucceeds(p) ==
  \/ /\ proc[p].pc = "query" /\ proc[p].op = "deleteConversion"
     /\ proc'[p].pc = "returned" /\ proc'[p].res.b
  \/ /\ proc[p].pc \in {"idle", "returned"} /\ proc[p].stage # "remove"
     /\ proc'[p].pc = "done" /\ proc'[p].h = "delete"
     /\ proc'[p].status = 200

\* deleteConversion has returned true to the handler of p, before this
\* step or in it
DeleteSucceeded(p) ==
  IF proc[p].pc = "returned" /\ proc[p].stage = "remove"
    THEN proc[p].res.b
    ELSE DeleteSucceeds(p)

(***************************************************************************)
(* C30: of the DELETE /api/conversions/:id requests user a issues for one  *)
(* conversion, at most one is answered 200.  A call of deleteConversion    *)
(* that returns true removes the conversion named, which was stored until  *)
(* then, and removes nothing else; an authenticated request is answered    *)
(* 200 if the call made for it has returned true and 404 or 500 otherwise; *)
(* and two answered requests for the same conversion are never both 200.   *)
(***************************************************************************)
C30_OneSucceeds ==
  [][\A p \in Procs :
       /\ DeleteSucceeds(p)
            => LET id == proc'[p].reqId
               IN  /\ id \in IdsOf(conversions) \cup IdsOf(dbConversions)
                   /\ IdsOf(conversions') \cup IdsOf(dbConversions')
                        = (IdsOf(conversions) \cup IdsOf(dbConversions))
                            \ {id}
       /\ (/\ proc[p].pc # "done" /\ proc'[p].pc = "done"
           /\ proc'[p].h = "delete" /\ proc'[p].user # NoId)
            => proc'[p].status \in
                 (IF DeleteSucceeded(p) THEN {200} ELSE {404, 500})
       /\ \A q \in Procs \ {p} :
            (/\ proc'[p].pc = "done" /\ proc'[q].pc = "done"
             /\ proc'[p].reqId = proc'[q].reqId
             /\ proc'[p].status = 200)
              => proc'[q].status # 200]_vars

\* two DELETE requests of user a found the conversion on the persistent
\* backend; one has been answered 200 and the other 500
C30_SecondFails ==
  /\ proc["p1"].pc = "done" /\ proc["p1"].status = 200
  /\ proc["p2"].pc = "done" /\ proc["p2"].status = 500
  /\ proc["p1"].user = DbObjectId(1) /\ proc["p2"].user = DbObjectId(1)
  /\ reachable /\ readyState = 1 /\ activeStorage = "mongo"
  /\ connectionAttempts = 0

(***************************************************************************)
(* C29: a GET /api/conversions response never carries more items than its  *)
(* pagination.total says.                                                  *)
(***************************************************************************)
C29_ItemsWithinTotal ==
  \A p \in Procs :
    (proc[p].pc = "done" /\ proc[p].h = "list" /\ proc[p].status = 200)
      => proc[p].items <= proc[p].total
====
